---- MODULE Spec2Model ----
(***************************************************************************)
(* Model of the mention-ingestion and weekly-scoring pipeline of           *)
(* src/leaderboard-web-boosted.ts: the JSON-file store (DataStorage), the  *)
(* paginated fetcher (fetchTwitterMentions), the merge cycles              *)
(* (fetchAllMentionsHistorical, fetchLatestMentionsLive), the aggregator   *)
(* (scoreAndStore) and the entry points that start cycles.                 *)
(*                                                                         *)
(* Time is counted in seconds since the Unix epoch (1970-01-01T00:00Z, a   *)
(* Thursday).  A date string 'YYYY-MM-DD' is represented by its day number *)
(* since the epoch, which preserves equality and order of the strings.     *)
(* Scores are kept exact by scaling: a score s of the program is the       *)
(* integer s * 16000 of the model (0.001 * 0.25 * 1.25 = 5 / 16000).  A Tweet record keeps the fields   *)
(* the pipeline reads (id, username, follower_count, created_at, likes,    *)
(* retweets); text and url are carried along unread and are left out.      *)
(***************************************************************************)
EXTENDS Integers, Sequences, FiniteSets, TLC

VARIABLES
  now,        \* the wall clock (new Date()), seconds since the epoch
  tz,         \* UTC offset of the process's local time zone, in seconds
  disk,       \* content of leaderboard_data.json as DataStorage.load returns it
  pc,         \* per invocation: where the async function is suspended
  entry,      \* per invocation: the entry point that started it
  range,      \* per invocation: startTime / endTime passed to fetchTwitterMentions
  data,       \* per invocation: the local `data` of fetchLatestMentionsLive
  cycleAdded, \* per invocation, observer: newTweets.length of its merge
  lastOp,     \* observer: the branches taken by the last operation
  fpc,        \* fetchTwitterMentions: position in the paging loop
  pageCount,  \* fetchTwitterMentions: pageCount
  allTweets,  \* fetchTwitterMentions: allTweets
  allUsers,   \* fetchTwitterMentions: allUsers
  nextToken,  \* fetchTwitterMentions: nextToken (TRUE iff defined)
  result,     \* fetchTwitterMentions: how the last call ended
  observed,   \* fetchTwitterMentions, observer: pages, outcomes and delays of the call
  fileKind,   \* what leaderboard_data.json holds; disk is its content when "store"
  lastIO,     \* observer: how the fetch and the writes of the last operation went
  spc,        \* scoreAndStore run statement by statement: its position
  locals,     \* scoreAndStore run statement by statement: its locals
  call        \* the last call of a pure function: arguments and value

storeVars == <<now, tz, disk, pc, entry, range, data, cycleAdded, lastOp>>
fetchVars == <<fpc, pageCount, allTweets, allUsers, nextToken, result, observed>>
ioVars == <<fileKind, lastIO>>
stepVars == <<spc, locals, call>>
auxVars == <<fileKind, lastIO, spc, locals, call>>
vars == <<now, tz, disk, pc, entry, range, data, cycleAdded, lastOp,
          fpc, pageCount, allTweets, allUsers, nextToken, result, observed,
          fileKind, lastIO, spc, locals, call>>

----------------------------------------------------------------------------
(* Program constants *)

Hour == 3600
Day == 86400
Week == 7 * Day
maxPages == 10          \* fetchTwitterMentions: const maxPages = 10
KeepWeeks == 8          \* scoreAndStore: data.leaderboards.slice(-8)
EndLag == 30            \* endTime = now - 30 * 1000 ms
LiveLookback == 1800    \* subMinutes(now, 30)

(* Bounds of the model *)

NProcs == 2             \* concurrently running invocations (Spec)
MaxTick == 1            \* clock instants after the first one (Spec)
MaxBatch == 2           \* longest list returned by one fetch (Spec)
MaxTickWeeks == 8       \* clock instants after the first one (SpecWeeks)
MaxBatchWeeks == 1      \* longest list returned by one fetch (SpecWeeks)
MaxRaw == 2             \* raw tweets accumulated by one fetchTwitterMentions call
MaxRawUsers == 1        \* raw authors accumulated by one fetchTwitterMentions call
MaxPageData == 1        \* raw tweets on one page
MaxStored == 2          \* records of the store getWeeklyTweets is called on (SpecWindow)
MaxOffset == 1          \* largest weekOffset passed to getWeeklyTweets (SpecWindow)
MaxUserTweets == 3      \* records passed to calculateUserScore (SpecScorer)
MaxRankTweets == 3      \* records of the store scoreAndStore is called on (SpecRank)
MaxDrift == 1           \* seconds the clock advances inside one scoreAndStore (SpecClock)
MaxLiveTicks == 4       \* steps of LiveStep the clock makes (SpecLive)

\* the instants at which the clock is read: Monday 00:00 UTC of every week, and
\* Thursday 12:00 UTC of the first week
FirstInstant == Week + 4 * Day
Instant(j) ==
  IF j = 0 THEN FirstInstant
  ELSE IF j = 1 THEN FirstInstant + 84 * Hour
  ELSE FirstInstant + (j - 1) * Week
TZOffsets == {0, 0 - 5 * Hour}       \* UTC and UTC-5

Procs == 1 .. NProcs

----------------------------------------------------------------------------
(* Sequence helpers *)

Range(s) == {s[i] : i \in 1 .. Len(s)}

RECURSIVE SumSeq(_)
SumSeq(s) == IF s = <<>> THEN 0 ELSE Head(s) + SumSeq(Tail(s))

Front(s) == SubSeq(s, 1, Len(s) - 1)
Last(s) == s[Len(s)]

\* Array.prototype.slice(-n)
SliceLast(s, n) == IF Len(s) <= n THEN s ELSE SubSeq(s, Len(s) - n + 1, Len(s))

\* the first index i of s with hit[i], 0 when there is none
\* (Array.prototype.findIndex returns -1 then, Array.prototype.find undefined)
FirstIndex(hit) ==
  IF \E i \in DOMAIN hit : hit[i]
  THEN CHOOSE i \in DOMAIN hit : hit[i] /\ \A k \in 1 .. i - 1 : ~hit[k]
  ELSE 0

----------------------------------------------------------------------------
(* DataStorage *)

EmptyStore == [tweets |-> <<>>, lastFetch |-> 0, leaderboards |-> <<>>]

\* variant: the window closed at both ends
getWeeklyTweets_closed(d, weekOffset, t) ==
  LET weekStart == t - (7 + weekOffset * 7) * Day
      weekEnd == t - weekOffset * 7 * Day
      inWeek(tweet) == tweet.created_at >= weekStart /\ tweet.created_at <= weekEnd
  IN SelectSeq(d.tweets, inWeek)

\* DataStorage.getWeeklyTweets, with the clock value t it reads
getWeeklyTweets(d, weekOffset, t) ==
  LET weekStart == t - (7 + weekOffset * 7) * Day
      weekEnd == t - weekOffset * 7 * Day
      inWeek(tweet) == tweet.created_at >= weekStart /\ tweet.created_at < weekEnd
  IN SelectSeq(d.tweets, inWeek)

\* Date.prototype.getDay of a local day number (day 0 is a Thursday)
getDay(localDay) == (localDay + 4) % 7

\* getWeekKey: setDate works on the local calendar and keeps the local time of
\* day, toISOString().split('T')[0] is the UTC date of the resulting instant
getWeekKey(t, off) ==
  LET local == t + off
      localDay == local \div Day
      timeOfDay == local % Day
      sunday == localDay - getDay(localDay)
      weekStart == sunday * Day + timeOfDay - off
  IN weekStart \div Day

\* the values of a stored id or username that are not JavaScript strings: a
\* number, and the undefined of a missing field
NonStrings == {"<number>", "<undefined>"}

\* typeof value === 'string'
isString(value) == value \notin NonStrings

\* variant: the id is not looked at
isValidTweet_handleOnly(tweet) ==
  /\ isString(tweet.username)
  /\ tweet.username # "unknown"
  /\ tweet.username # ""

isValidTweet(tweet) ==
  /\ isString(tweet.id)
  /\ isString(tweet.username)
  /\ tweet.username # "unknown"
  /\ tweet.username # ""

----------------------------------------------------------------------------
(* Scorer *)

\* [...userTweets].sort((a, b) => b.created_at - a.created_at): a stable sort,
\* most recent first
insertByCreatedDesc(s, x) ==
  LET k == Cardinality({i \in 1 .. Len(s) : s[i].created_at >= x.created_at})
  IN SubSeq(s, 1, k) \o <<x>> \o SubSeq(s, k + 1, Len(s))

RECURSIVE sortByCreatedDesc(_)
sortByCreatedDesc(s) ==
  IF s = <<>> THEN <<>> ELSE insertByCreatedDesc(sortByCreatedDesc(Front(s)), Last(s))

\* impactScore * 1000
impactScore(tweet) == tweet.follower_count + 1000 * tweet.likes + 2000 * tweet.retweets

\* variant: the same multiplier from the second record on
freshnessMultiplier_flat(i) == IF i = 0 THEN 3 ELSE 1

\* i is the 0-based rank
freshnessMultiplier(i) == IF i = 0 THEN 3 ELSE IF i = 1 THEN 2 ELSE 1

\* variant: the factor grows again from the third record on
decayFactor_growing(i) == IF i = 0 THEN 4 ELSE IF i = 1 THEN 2 ELSE 16

\* decayFactor * 4
decayFactor(i) == IF i = 0 THEN 4 ELSE IF i = 1 THEN 2 ELSE 1

\* variant: the bonus is given to every user
consistencyMultiplier_always(userTweets, previousWeekUsers) == 5

\* consistencyMultiplier * 4
consistencyMultiplier(userTweets, previousWeekUsers) ==
  IF /\ userTweets # <<>>
     /\ userTweets[1].username # ""
     /\ userTweets[1].username \in Range(previousWeekUsers)
  THEN 5 ELSE 4

\* calculateUserScore * ScoreScale
calculateUserScore(userTweets, previousWeekUsers) ==
  LET sortedTweets == sortByCreatedDesc(userTweets)
      contribution == [i \in 1 .. Len(sortedTweets) |->
          impactScore(sortedTweets[i]) * freshnessMultiplier(i - 1) * decayFactor(i - 1)]
  IN SumSeq(contribution) * consistencyMultiplier(userTweets, previousWeekUsers)

----------------------------------------------------------------------------
(* Aggregator *)

\* likes + retweets * 2, the measure of both reduce calls
viralScore(tweet) == tweet.likes + tweet.retweets * 2

\* variant: the reduce starts from the sentinel, so a list without a positive
\* measure gives the sentinel
mostViral_seeded(tweets) ==
  LET i == CHOOSE i \in 1 .. Len(tweets) :
             /\ \A k \in 1 .. Len(tweets) : viralScore(tweets[k]) <= viralScore(tweets[i])
             /\ \A k \in 1 .. i - 1 : viralScore(tweets[k]) < viralScore(tweets[i])
  IN IF viralScore(tweets[i]) > 0 THEN tweets[i]
     ELSE [id |-> "dummy", username |-> "none", follower_count |-> 0,
           created_at |-> 0, likes |-> 0, retweets |-> 0]

\* tweets.reduce((best, current) => viral(current) > viral(best) ? current : best):
\* the first tweet of maximal measure
mostViral(tweets) ==
  LET i == CHOOSE i \in 1 .. Len(tweets) :
             /\ \A k \in 1 .. Len(tweets) : viralScore(tweets[k]) <= viralScore(tweets[i])
             /\ \A k \in 1 .. i - 1 : viralScore(tweets[k]) < viralScore(tweets[i])
  IN tweets[i]

\* the sentinel of the else branch of scoreAndStore
DummyTweet == [id |-> "dummy", username |-> "none", follower_count |-> 0,
               created_at |-> 0, likes |-> 0, retweets |-> 0]

\* the elements of s in the order of their first occurrence (key order of
\* Object.entries(tweetsByUser), also [...new Set(s)])
firstOccurrences(s) ==
  LET firstIdx == SelectSeq([i \in 1 .. Len(s) |-> i],
                            LAMBDA i : \A k \in 1 .. i - 1 : s[k] # s[i])
  IN [j \in 1 .. Len(firstIdx) |-> s[firstIdx[j]]]

\* the handles of the model that are canonical array indices ("7"): as property
\* names of tweetsByUser they are enumerated first, in ascending numeric order
IntegerKeys == <<"7">>

\* the key order of Object.entries(tweetsByUser) for keys created in the order
\* `keys`: integer keys ascending, then the other keys in creation order
objectEntries(keys) ==
  SelectSeq(IntegerKeys, LAMBDA k : k \in Range(keys))
    \o SelectSeq(keys, LAMBDA k : k \notin Range(IntegerKeys))

\* variant: the top record is the first record of the group
userStat_firstTop(username, tweets, previousWeekUsers) ==
  [username |-> username,
   totalScore |-> calculateUserScore(tweets, previousWeekUsers),
   tweetCount |-> Len(tweets),
   avgLikes |-> <<SumSeq([i \in 1 .. Len(tweets) |-> tweets[i].likes]), Len(tweets)>>,
   avgRetweets |-> <<SumSeq([i \in 1 .. Len(tweets) |-> tweets[i].retweets]), Len(tweets)>>,
   topTweet |-> tweets[1],
   lastActive |-> tweets[1].created_at]

\* one entry of the map over Object.entries(tweetsByUser);
\* avgLikes and avgRetweets are kept as <<sum, count>>
userStat(username, tweets, previousWeekUsers) ==
  [username |-> username,
   totalScore |-> calculateUserScore(tweets, previousWeekUsers),
   tweetCount |-> Len(tweets),
   avgLikes |-> <<SumSeq([i \in 1 .. Len(tweets) |-> tweets[i].likes]), Len(tweets)>>,
   avgRetweets |-> <<SumSeq([i \in 1 .. Len(tweets) |-> tweets[i].retweets]), Len(tweets)>>,
   topTweet |-> mostViral(tweets),
   lastActive |-> tweets[1].created_at]

\* userStats.sort((a, b) => b.totalScore - a.totalScore): stable, descending
insertByScoreDesc(s, x) ==
  LET k == Cardinality({i \in 1 .. Len(s) : s[i].totalScore >= x.totalScore})
  IN SubSeq(s, 1, k) \o <<x>> \o SubSeq(s, k + 1, Len(s))

RECURSIVE sortByScoreDesc(_)
sortByScoreDesc(s) ==
  IF s = <<>> THEN <<>> ELSE insertByScoreDesc(sortByScoreDesc(Front(s)), Last(s))

\* the users of the snapshot: group the valid tweets by username, score every
\* group, keep the positive scores, sort
rankUsers(currentWeekTweets, previousWeekTweets) ==
  LET valid == SelectSeq(currentWeekTweets, isValidTweet)
      names == objectEntries(firstOccurrences([i \in 1 .. Len(valid) |-> valid[i].username]))
      tweetsOf(u) == SelectSeq(valid, LAMBDA tweet : tweet.username = u)
      previousWeekUsers ==
        firstOccurrences([i \in 1 .. Len(previousWeekTweets) |-> previousWeekTweets[i].username])
      stats == [j \in 1 .. Len(names) |-> userStat(names[j], tweetsOf(names[j]), previousWeekUsers)]
  IN sortByScoreDesc(SelectSeq(stats, LAMBDA stat : stat.totalScore > 0))

\* variant: the most viral record is chosen among the valid records only
leaderboardData_validOnly(currentWeekTweets, previousWeekTweets, weekKey) ==
  [week |-> weekKey,
   users |-> rankUsers(currentWeekTweets, previousWeekTweets),
   totalTweets |-> Len(currentWeekTweets),
   mostViralTweet |-> IF Len(SelectSeq(currentWeekTweets, isValidTweet)) > 0
                      THEN mostViral(SelectSeq(currentWeekTweets, isValidTweet))
                      ELSE DummyTweet]

\* the LeaderboardData built by scoreAndStore; weekKey is getWeekKey()
leaderboardData(currentWeekTweets, previousWeekTweets, weekKey) ==
  [week |-> weekKey,
   users |-> rankUsers(currentWeekTweets, previousWeekTweets),
   totalTweets |-> Len(currentWeekTweets),
   mostViralTweet |-> IF Len(currentWeekTweets) > 0 THEN mostViral(currentWeekTweets)
                      ELSE DummyTweet]

\* variant: always push
upsertLeaderboard_push(leaderboards, lb) == Append(leaderboards, lb)

\* existingIndex >= 0 ? replace in place : push
upsertLeaderboard(leaderboards, lb) ==
  LET existingIndex == FirstIndex([i \in 1 .. Len(leaderboards) |-> leaderboards[i].week = lb.week])
  IN IF existingIndex > 0 THEN [leaderboards EXCEPT ![existingIndex] = lb]
     ELSE Append(leaderboards, lb)

\* variant: no trimming
trimLeaderboards_none(leaderboards) == leaderboards

\* data.leaderboards.slice(-8)
trimLeaderboards(leaderboards) == SliceLast(leaderboards, KeepWeeks)

\* variant: no early return
noTweetsThisWeek_never(currentWeekTweets) == FALSE

\* the early return of scoreAndStore
noTweetsThisWeek(currentWeekTweets) == Len(currentWeekTweets) = 0

\* variant: the slice of the current week is written back as the records
scoreAndStore_sliceOnly(d, t0, t1, tk, off) ==
  LET currentWeekTweets == getWeeklyTweets(d, 0, t0)
      previousWeekTweets == getWeeklyTweets(d, 1, t1)
      lb == leaderboardData(currentWeekTweets, previousWeekTweets, getWeekKey(tk, off))
  IN IF noTweetsThisWeek(currentWeekTweets) THEN d
     ELSE [d EXCEPT !.tweets = currentWeekTweets,
                    !.leaderboards = trimLeaderboards(upsertLeaderboard(d.leaderboards, lb))]

\* scoreAndStore: the content of the file after the call, given the content d
\* before it and the clock values read by getWeeklyTweets(0), getWeeklyTweets(1)
\* and getWeekKey()
scoreAndStore(d, t0, t1, tk, off) ==
  LET currentWeekTweets == getWeeklyTweets(d, 0, t0)
      previousWeekTweets == getWeeklyTweets(d, 1, t1)
      lb == leaderboardData(currentWeekTweets, previousWeekTweets, getWeekKey(tk, off))
  IN IF noTweetsThisWeek(currentWeekTweets) THEN d
     ELSE [d EXCEPT !.leaderboards = trimLeaderboards(upsertLeaderboard(d.leaderboards, lb))]

\* observer: which branch scoreAndStore takes on d
scoreBranch(d, t0, tk, off) ==
  LET key == getWeekKey(tk, off)
  IN IF noTweetsThisWeek(getWeeklyTweets(d, 0, t0)) THEN "empty"
     ELSE IF \E i \in 1 .. Len(d.leaderboards) : d.leaderboards[i].week = key THEN "replaced"
     ELSE IF Len(d.leaderboards) >= KeepWeeks THEN "evicted"
     ELSE "appended"

----------------------------------------------------------------------------
(* Deduplicator / Merger: lines 224-230 and 251-256 *)

\* variant: no filter by id
newTweetsOf_unfiltered(d, tweets) == tweets

\* tweets.filter(t => !existingIds.has(t.id)), existingIds built once from d
newTweetsOf(d, tweets) ==
  LET existingIds == {d.tweets[i].id : i \in 1 .. Len(d.tweets)}
  IN SelectSeq(tweets, LAMBDA t : t.id \notin existingIds)

\* variant: lastFetch moves only when something was appended
mergeTweets_whenNew(d, tweets, t) ==
  [d EXCEPT !.tweets = @ \o newTweetsOf(d, tweets),
            !.lastFetch = IF newTweetsOf(d, tweets) # <<>> THEN t ELSE @]

\* data.tweets.push(...newTweets); data.lastFetch = new Date().toISOString()
mergeTweets(d, tweets, t) ==
  [d EXCEPT !.tweets = @ \o newTweetsOf(d, tweets), !.lastFetch = t]

\* if (newTweets.length > 0) await scoreAndStore()
shouldScore(newTweets) == Len(newTweets) > 0

\* lines 224-236 / 251-259: merge the fetched tweets into the loaded data d,
\* save, and score what was saved when something was new
mergeAndScore(d, tweets, t, off) ==
  LET saved == mergeTweets(d, tweets, t)
  IN IF shouldScore(newTweetsOf(d, tweets)) THEN scoreAndStore(saved, t, t, t, off)
     ELSE saved

mergeBranch(d, tweets, t, off) ==
  IF shouldScore(newTweetsOf(d, tweets)) THEN scoreBranch(mergeTweets(d, tweets, t), t, t, off)
  ELSE "none"

----------------------------------------------------------------------------
(* The upstream search capability, as the merge cycles see it: *)
(* the mentions that exist and the lists a fetch can return    *)

MentionIds == <<"m0", "m1", "m2", "m3", "m4", "m5", "m6", "m7", "m8", "m9", "m10",
                "m11", "m12", "m13", "m14", "m15", "m16", "m17", "m18", "m19", "m20">>

\* a mention is posted one minute before every Monday instant
PostedBefore(j) == j # 1

PostedAt(j) == Instant(j) - 60

Mention(j) ==
  [id |-> MentionIds[j + 1],
   username |-> IF j % 3 = 2 THEN "b" ELSE "a",
   follower_count |-> IF j % 3 = 2 THEN 0 ELSE 1000,
   created_at |-> PostedAt(j),
   likes |-> IF j % 3 = 2 THEN j % 2 ELSE 10,
   retweets |-> IF j % 3 = 2 THEN 0 ELSE 5]

\* the upstream answers with mentions of the requested range
Fetchable(r, maxTick) ==
  {Mention(j) : j \in {k \in 0 .. maxTick :
                         /\ PostedBefore(k)
                         /\ r.startTime <= PostedAt(k)
                         /\ PostedAt(k) < r.endTime}}

\* the lists fetchTwitterMentions can return for the range r
Batches(r, maxTick, maxBatch) ==
  UNION {[1 .. n -> Fetchable(r, maxTick)] : n \in 0 .. maxBatch}

----------------------------------------------------------------------------
(* Invocations of the cycle functions and of the handlers *)

NoRange == [startTime |-> 0, endTime |-> 0]

StoreInit ==
  /\ now = Instant(0)
  /\ tz \in TZOffsets
  /\ disk = EmptyStore
  /\ pc = [p \in Procs |-> "idle"]
  /\ entry = [p \in Procs |-> "none"]
  /\ range = [p \in Procs |-> NoRange]
  /\ data = [p \in Procs |-> EmptyStore]
  /\ cycleAdded = [p \in Procs |-> 0]
  /\ lastOp = [op |-> "init", added |-> 0, score |-> "none"]

FetchIdle ==
  /\ fpc = "idle"
  /\ pageCount = 0
  /\ allTweets = <<>>
  /\ allUsers = <<>>
  /\ nextToken = FALSE
  /\ result = [threw |-> FALSE, failed |-> FALSE, value |-> <<>>]
  /\ observed = [authors |-> <<>>, apart |-> {}, responses |-> 0, delays |-> 0]

NoIO == [threw |-> FALSE, fetch |-> "none", merge |-> "none", score |-> "none",
         refetched |-> FALSE]

\* the locals of a scoreAndStore call that has not read anything yet
NoLocals ==
  [currentWeekTweets |-> <<>>, previousWeekTweets |-> <<>>, userStats |-> <<>>,
   mostViralTweet |-> DummyTweet, data |-> EmptyStore, writes |-> 0]

NoCall == [fn |-> "none", input |-> <<>>, param |-> 0, value |-> 0]

\* no scoreAndStore is running and no function was called
StepIdle ==
  /\ spc = "idle"
  /\ locals = NoLocals
  /\ call = NoCall

\* the file holds a store and nothing was read or written yet
AuxIdle ==
  /\ fileKind = "store"
  /\ lastIO = NoIO
  /\ StepIdle

\* time passes
tick(maxTick) ==
  /\ \E j \in 0 .. maxTick - 1 : now = Instant(j) /\ now' = Instant(j + 1)
  /\ lastOp' = [op |-> "tick", added |-> 0, score |-> "none"]
  /\ UNCHANGED <<tz, disk, pc, entry, range, data, cycleAdded>>

\* fetchAllMentionsHistorical up to its await of fetchTwitterMentions,
\* called directly (e = "historical") or from a handler
startHistorical(p, e) ==
  /\ pc[p] = "idle"
  /\ pc' = [pc EXCEPT ![p] = "awaitFetch"]
  /\ entry' = [entry EXCEPT ![p] = e]
  /\ range' = [range EXCEPT ![p] = [startTime |-> now - 7 * Day, endTime |-> now - EndLag]]
  /\ UNCHANGED <<now, tz, disk, data, cycleAdded, lastOp>>

\* fetchAllMentionsHistorical from the return of fetchTwitterMentions to its end
resumeHistorical(p, maxTick, maxBatch) ==
  /\ pc[p] = "awaitFetch"
  /\ entry[p] \in {"historical", "refresh", "fetch"}
  /\ \E tweets \in Batches(range[p], maxTick, maxBatch) :
       /\ disk' = mergeAndScore(disk, tweets, now, tz)
       /\ lastOp' = [op |-> "historical", added |-> Len(newTweetsOf(disk, tweets)),
                     score |-> mergeBranch(disk, tweets, now, tz)]
       /\ cycleAdded' = [cycleAdded EXCEPT ![p] =
                           IF entry[p] = "historical" THEN 0 ELSE Len(newTweetsOf(disk, tweets))]
  /\ pc' = [pc EXCEPT ![p] = IF entry[p] = "historical" THEN "idle" ELSE "awaitHistorical"]
  /\ entry' = [entry EXCEPT ![p] = IF entry[p] = "historical" THEN "none" ELSE @]
  /\ range' = [range EXCEPT ![p] = NoRange]
  /\ UNCHANGED <<now, tz, data>>

\* the handlers of /api/refresh and /fetch after `await fetchAllMentionsHistorical()`
handlerScore(p) ==
  /\ pc[p] = "awaitHistorical"
  /\ disk' = scoreAndStore(disk, now, now, now, tz)
  /\ lastOp' = [op |-> entry[p], added |-> cycleAdded[p],
                score |-> scoreBranch(disk, now, now, tz)]
  /\ pc' = [pc EXCEPT ![p] = "idle"]
  /\ entry' = [entry EXCEPT ![p] = "none"]
  /\ cycleAdded' = [cycleAdded EXCEPT ![p] = 0]
  /\ UNCHANGED <<now, tz, range, data>>

\* fetchLatestMentionsLive up to its await: the store is loaded before the fetch
startLive(p) ==
  /\ pc[p] = "idle"
  /\ pc' = [pc EXCEPT ![p] = "awaitFetch"]
  /\ entry' = [entry EXCEPT ![p] = "live"]
  /\ data' = [data EXCEPT ![p] = disk]
  /\ range' = [range EXCEPT ![p] =
                 [startTime |-> IF disk.lastFetch > now - LiveLookback THEN disk.lastFetch
                                ELSE now - LiveLookback,
                  endTime |-> now - EndLag]]
  /\ UNCHANGED <<now, tz, disk, cycleAdded, lastOp>>

\* fetchLatestMentionsLive from the return of fetchTwitterMentions to its end
resumeLive(p, maxTick, maxBatch) ==
  /\ pc[p] = "awaitFetch"
  /\ entry[p] = "live"
  /\ \E tweets \in Batches(range[p], maxTick, maxBatch) :
       /\ disk' = mergeAndScore(data[p], tweets, now, tz)
       /\ lastOp' = [op |-> "live", added |-> Len(newTweetsOf(data[p], tweets)),
                     score |-> mergeBranch(data[p], tweets, now, tz)]
  /\ pc' = [pc EXCEPT ![p] = "idle"]
  /\ entry' = [entry EXCEPT ![p] = "none"]
  /\ range' = [range EXCEPT ![p] = NoRange]
  /\ data' = [data EXCEPT ![p] = EmptyStore]
  /\ UNCHANGED <<now, tz, cycleAdded>>

\* the exported scoreAndStore, called on its own
callScoreAndStore ==
  /\ disk' = scoreAndStore(disk, now, now, now, tz)
  /\ lastOp' = [op |-> "score", added |-> 0, score |-> scoreBranch(disk, now, now, tz)]
  /\ UNCHANGED <<now, tz, pc, entry, range, data, cycleAdded>>

----------------------------------------------------------------------------
(* Spec: concurrent invocations over a short span of time *)

Init == StoreInit /\ FetchIdle /\ AuxIdle

FetchAllMentionsHistorical(p) == startHistorical(p, "historical") /\ UNCHANGED <<fetchVars, auxVars>>
PostApiRefresh(p) == startHistorical(p, "refresh") /\ UNCHANGED <<fetchVars, auxVars>>
OnFetchCommand(p) == startHistorical(p, "fetch") /\ UNCHANGED <<fetchVars, auxVars>>
HistoricalResume(p) == resumeHistorical(p, MaxTick, MaxBatch) /\ UNCHANGED <<fetchVars, auxVars>>
HandlerScore(p) == handlerScore(p) /\ UNCHANGED <<fetchVars, auxVars>>
FetchLatestMentionsLive(p) == startLive(p) /\ UNCHANGED <<fetchVars, auxVars>>
LiveResume(p) == resumeLive(p, MaxTick, MaxBatch) /\ UNCHANGED <<fetchVars, auxVars>>
ScoreAndStore == callScoreAndStore /\ UNCHANGED <<fetchVars, auxVars>>
Tick == tick(MaxTick) /\ UNCHANGED <<fetchVars, auxVars>>

Next ==
  \/ \E p \in Procs : FetchAllMentionsHistorical(p)
  \/ \E p \in Procs : PostApiRefresh(p)
  \/ \E p \in Procs : OnFetchCommand(p)
  \/ \E p \in Procs : HistoricalResume(p)
  \/ \E p \in Procs : HandlerScore(p)
  \/ \E p \in Procs : FetchLatestMentionsLive(p)
  \/ \E p \in Procs : LiveResume(p)
  \/ ScoreAndStore
  \/ Tick

Spec == Init /\ [][Next]_vars

----------------------------------------------------------------------------
(* SpecWeeks: one invocation at a time over many weeks *)

\* a fetchAllMentionsHistorical cycle whose fetch returns at once
WeeksCycle ==
  /\ pc[1] = "idle"
  /\ \E tweets \in Batches([startTime |-> now - 7 * Day, endTime |-> now - EndLag],
                           MaxTickWeeks, MaxBatchWeeks) :
       /\ disk' = mergeAndScore(disk, tweets, now, tz)
       /\ lastOp' = [op |-> "historical", added |-> Len(newTweetsOf(disk, tweets)),
                     score |-> mergeBranch(disk, tweets, now, tz)]
  /\ UNCHANGED <<now, tz, pc, entry, range, data, cycleAdded>>
  /\ UNCHANGED <<fetchVars, auxVars>>
WeeksScore == callScoreAndStore /\ UNCHANGED <<fetchVars, auxVars>>
WeeksTick == tick(MaxTickWeeks) /\ UNCHANGED <<fetchVars, auxVars>>

NextWeeks == WeeksCycle \/ WeeksScore \/ WeeksTick

SpecWeeks == Init /\ [][NextWeeks]_vars

----------------------------------------------------------------------------
(* Properties of the store under merge cycles *)

idsOf(d) == {d.tweets[i].id : i \in 1 .. Len(d.tweets)}
weeksOf(d) == {d.leaderboards[i].week : i \in 1 .. Len(d.leaderboards)}

\* C1: no two records of the store have the same id.
C1_IdsUnique ==
  \A i, k \in 1 .. Len(disk.tweets) : i # k => disk.tweets[i].id # disk.tweets[k].id

\* the lists a fetch of the last seven days may return now
AnyBatch ==
  Batches([startTime |-> now - 7 * Day, endTime |-> now - EndLag], MaxTickWeeks, MaxBatch)

\* C2: merging the same fetched list a second time appends nothing: the records
\* after two merges are the records after one.
C2_MergeIdempotent ==
  \A tweets \in AnyBatch :
    LET once == mergeTweets(disk, tweets, now)
        twice == mergeTweets(once, tweets, now)
    IN twice.tweets = once.tweets /\ newTweetsOf(once, tweets) = <<>>

\* a merge has appended records to a store that already held some
C2_Witness ==
  /\ lastOp.op = "historical"
  /\ lastOp.added > 0
  /\ Len(disk.tweets) > lastOp.added

\* C3: what one cycle has persisted is not removed by another cycle's save: a
\* step keeps every stored id, and keeps every snapshot week unless the list is
\* full after it.
C3_NoLostUpdate ==
  [][/\ idsOf(disk) \subseteq idsOf(disk')
     /\ \/ weeksOf(disk) \subseteq weeksOf(disk')
        \/ Len(disk'.leaderboards) = KeepWeeks]_vars

\* C4: at most one cycle is in progress at any time.
C4_OneCycleAtATime == Cardinality({p \in Procs : pc[p] # "idle"}) <= 1

\* C5: at most one snapshot per week key and at most 8 snapshots.
C5_SnapshotsUniqueAndBounded ==
  /\ Len(disk.leaderboards) <= 8
  /\ \A i, k \in 1 .. Len(disk.leaderboards) :
       i # k => disk.leaderboards[i].week # disk.leaderboards[k].week

\* a ninth week key has been scored and the list was trimmed
C5_Witness == lastOp.score = "evicted" /\ Len(disk.leaderboards) = 8

\* C6: when scoreAndStore produces a snapshot whose week key is in the list, the
\* length of the list is unchanged, the snapshot of that week stays at its index
\* and every other snapshot keeps its content and its position.
C6_ReplaceInPlace ==
  [][(/\ lastOp' # lastOp
      /\ lastOp'.score # "none"
      /\ getWeeklyTweets(disk', 0, now) # <<>>
      /\ getWeekKey(now, tz) \in weeksOf(disk))
     => /\ Len(disk'.leaderboards) = Len(disk.leaderboards)
        /\ \A i \in 1 .. Len(disk.leaderboards) :
             IF disk.leaderboards[i].week = getWeekKey(now, tz)
             THEN /\ disk'.leaderboards[i].week = getWeekKey(now, tz)
                  /\ disk'.leaderboards[i].totalTweets = Len(getWeeklyTweets(disk', 0, now))
             ELSE disk'.leaderboards[i] = disk.leaderboards[i]]_vars

\* a snapshot was replaced in a list that holds other snapshots
C6_Witness == lastOp.score = "replaced" /\ Len(disk.leaderboards) >= 2

ascendingWeeks(leaderboards) ==
  \A i, k \in 1 .. Len(leaderboards) : i < k => leaderboards[i].week < leaderboards[k].week

\* C7: the list holds its snapshots in ascending week-key order, and a step that
\* appends to a full list evicts the snapshot of the smallest week key.
C7_EvictsOldestWeek ==
  /\ [](ascendingWeeks(disk.leaderboards))
  /\ [][(Len(disk.leaderboards) = KeepWeeks /\ ~(weeksOf(disk') \subseteq weeksOf(disk)))
        => \A w \in weeksOf(disk) \ weeksOf(disk') : \A v \in weeksOf(disk) : w <= v]_vars

\* C8: scoreAndStore on an empty current-week slice writes nothing.
C8_EmptyWeekNoWrite ==
  [][(/\ lastOp'.op \in {"score", "refresh", "fetch"}
      /\ getWeeklyTweets(disk, 0, now) = <<>>)
     => disk' = disk]_vars

\* scoreAndStore returned early on a store that holds records and snapshots
C8_Witness ==
  /\ lastOp.op = "score"
  /\ lastOp.score = "empty"
  /\ disk.tweets # <<>>
  /\ disk.leaderboards # <<>>

\* C9: a cycle that merged no new id leaves the snapshots unchanged, whichever
\* entry point started it: the step that ends the merge of such a cycle and the
\* step that ends its handler keep the snapshots list of the file.
C9_NoNewIdSnapshotsUnchanged ==
  [][\A p \in Procs :
       /\ (pc[p] = "awaitFetch" /\ pc'[p] # "awaitFetch" /\ lastOp'.added = 0)
            => disk'.leaderboards = disk.leaderboards
       /\ (pc[p] = "awaitHistorical" /\ pc'[p] = "idle" /\ cycleAdded[p] = 0)
            => disk'.leaderboards = disk.leaderboards]_vars

----------------------------------------------------------------------------
(* Mention Fetcher: fetchTwitterMentions, one step per page *)

\* JavaScript values of the numeric fields of the payload
Num(n) == [k |-> "number", v |-> n]
Null == [k |-> "null", v |-> 0]
Undefined == [k |-> "undefined", v |-> 0]
NonNumeric == [k |-> "string", v |-> 0]      \* a string Number() maps to NaN

NumericString(n) == [k |-> "numericString", v |-> n]   \* a string Number() maps to n

\* the number NaN, written as a value no upstream number of the model has
NaN == 0 - 1

\* Number(value) for a value that is neither null nor undefined
toNumber(value) == IF value.k \in {"number", "numericString"} THEN value.v ELSE NaN

\* variant: no isNaN test
safeNumber_unchecked(value) ==
  IF value.k \in {"null", "undefined"} THEN 0 ELSE toNumber(value)

safeNumber(value) ==
  IF value.k \in {"null", "undefined"} THEN 0
  ELSE IF toNumber(value) = NaN THEN 0
  ELSE toNumber(value)

\* entries of response.data; isNull marks a null element of the array
RawTweets ==
  {[id |-> "1", author_id |-> "u1", created_at |-> Instant(0) - 60,
    like_count |-> Num(10), retweet_count |-> Num(5), isNull |-> FALSE],
   [id |-> "2", author_id |-> "u9", created_at |-> Instant(0) - 60,
    like_count |-> Null, retweet_count |-> NonNumeric, isNull |-> FALSE],
   [id |-> "", author_id |-> "", created_at |-> 0,
    like_count |-> Undefined, retweet_count |-> Undefined, isNull |-> TRUE]}

\* entries of response.includes.users
RawUsers == {[id |-> "u1", username |-> "a", follower_count |-> Num(1000)],
             [id |-> "u9", username |-> "", follower_count |-> Undefined]}

SeqsUpTo(S, n) == UNION {[1 .. m -> S] : m \in 0 .. n}

\* what one request can bring: a rejected call, an output that does not parse,
\* or a page
Responses ==
  {[kind |-> "reject", data |-> <<>>, users |-> <<>>, next |-> FALSE],
   [kind |-> "malformed", data |-> <<>>, users |-> <<>>, next |-> FALSE]}
  \cup [kind : {"page"}, data : SeqsUpTo(RawTweets, MaxPageData),
        users : SeqsUpTo(RawUsers, 1), next : BOOLEAN]

\* lines 194-206: the join of one raw tweet with the accumulated authors
processTweet(tweet, users) ==
  LET idx == FirstIndex([i \in 1 .. Len(users) |-> users[i].id = tweet.author_id])
      found == idx > 0 /\ users[idx].username # ""
  IN [id |-> tweet.id,
      username |-> IF found THEN users[idx].username ELSE "unknown",
      follower_count |-> IF idx > 0 THEN safeNumber(users[idx].follower_count) ELSE 0,
      created_at |-> tweet.created_at,
      likes |-> safeNumber(tweet.like_count),
      retweets |-> safeNumber(tweet.retweet_count)]

\* variant: the catch block returns what was gathered before the failure
catchFetchError_partial(tweets, users) ==
  [threw |-> FALSE, failed |-> TRUE,
   value |-> [i \in 1 .. Len(tweets) |-> processTweet(tweets[i], users)]]

\* lines 209-212: catch (error) { console.error(...); return []; }
catchFetchError(tweets, users) == [threw |-> FALSE, failed |-> TRUE, value |-> <<>>]

\* variant: the records of unknown authors are returned too
processTweets_unfiltered(tweets, users) ==
  IF \E i \in 1 .. Len(tweets) : tweets[i].isNull
  THEN catchFetchError(tweets, users)
  ELSE [threw |-> FALSE, failed |-> FALSE,
        value |-> [i \in 1 .. Len(tweets) |-> processTweet(tweets[i], users)]]

\* lines 192-208 inside the try: reading a field of a null element throws
processTweets(tweets, users) ==
  IF \E i \in 1 .. Len(tweets) : tweets[i].isNull
  THEN catchFetchError(tweets, users)
  ELSE [threw |-> FALSE, failed |-> FALSE,
        value |-> SelectSeq([i \in 1 .. Len(tweets) |-> processTweet(tweets[i], users)],
                            LAMBDA tweet : tweet.username # "unknown")]

NoResult == [threw |-> FALSE, failed |-> FALSE, value |-> <<>>]

\* variant: the loop condition without the page cap
morePages_uncapped(token, count) == token

\* the loop condition: while (nextToken && pageCount < maxPages)
morePages(token, count) == token /\ count < maxPages

\* variant: the delay is taken after every page that carries a cursor
delayBeforeNext_always(token, count) == token

\* line 189: if (nextToken && pageCount < maxPages) await the 2000 ms timer
delayBeforeNext(token, count) == token /\ count < maxPages

\* variant: only the authors of the page just received are kept
gatherUsers_lastPage(users, pageUsers) == pageUsers

\* line 186: allUsers.push(...responseData.includes.users)
gatherUsers(users, pageUsers) == users \o pageUsers

\* is the author of the raw tweet among users
authorAmong(tweet, users) == \E u \in 1 .. Len(users) : users[u].id = tweet.author_id

\* observer: the authors of all pages received, the positions in allTweets of
\* the tweets whose author came on another page, the number of outcomes of
\* requests received and of delays taken by the call
NoObserved == [authors |-> <<>>, apart |-> {}, responses |-> 0, delays |-> 0]

\* the tweets that are apart from their author once a page with pageData and
\* pageUsers has arrived: the author of an earlier tweet comes now, or the
\* author of a tweet of this page came earlier
apartAfter(apart, tweets, users, pageData, pageUsers) ==
  apart
    \cup {i \in 1 .. Len(tweets) :
            ~authorAmong(tweets[i], users) /\ authorAmong(tweets[i], pageUsers)}
    \cup {Len(tweets) + j : j \in {k \in 1 .. Len(pageData) : authorAmong(pageData[k], users)}}

\* a call of fetchTwitterMentions: lines 157-161
FetchCall ==
  /\ fpc = "idle"
  /\ fpc' = "request"
  /\ pageCount' = 0
  /\ allTweets' = <<>>
  /\ allUsers' = <<>>
  /\ nextToken' = FALSE
  /\ result' = NoResult
  /\ observed' = NoObserved
  /\ UNCHANGED <<storeVars, auxVars>>

\* lines 165-177: pageCount++ and the request is sent
FetchRequest ==
  /\ fpc = "request"
  /\ fpc' = "await"
  /\ pageCount' = pageCount + 1
  /\ UNCHANGED <<allTweets, allUsers, nextToken, result, observed>>
  /\ UNCHANGED <<storeVars, auxVars>>

\* lines 177-190: the outcome of the request arrives, and what follows the loop
FetchPage ==
  /\ fpc = "await"
  /\ \E resp \in Responses :
       /\ Len(allTweets) + Len(resp.data) <= MaxRaw
       /\ Len(allUsers) + Len(resp.users) <= MaxRawUsers
       /\ IF resp.kind # "page"
          THEN /\ result' = catchFetchError(allTweets, allUsers)
               /\ fpc' = "done"
               /\ observed' = [observed EXCEPT !.responses = @ + 1]
               /\ UNCHANGED <<allTweets, allUsers, nextToken>>
          ELSE /\ allTweets' = allTweets \o resp.data
               /\ allUsers' = gatherUsers(allUsers, resp.users)
               /\ nextToken' = resp.next
               /\ observed' =
                    [authors |-> observed.authors \o resp.users,
                     apart |-> apartAfter(observed.apart, allTweets, observed.authors,
                                          resp.data, resp.users),
                     responses |-> observed.responses + 1,
                     delays |-> IF delayBeforeNext(resp.next, pageCount)
                                THEN observed.delays + 1 ELSE observed.delays]
               /\ IF delayBeforeNext(resp.next, pageCount)
                  THEN fpc' = "delay" /\ UNCHANGED result
                  ELSE IF morePages(resp.next, pageCount)
                  THEN fpc' = "request" /\ UNCHANGED result
                  ELSE /\ fpc' = "done"
                       /\ result' = processTweets(allTweets \o resp.data,
                                                  gatherUsers(allUsers, resp.users))
  /\ UNCHANGED pageCount
  /\ UNCHANGED <<storeVars, auxVars>>

\* the 2000 ms timer has fired: the loop condition of line 190
FetchDelay ==
  /\ fpc = "delay"
  /\ IF morePages(nextToken, pageCount)
     THEN fpc' = "request" /\ UNCHANGED result
     ELSE fpc' = "done" /\ result' = processTweets(allTweets, allUsers)
  /\ UNCHANGED <<pageCount, allTweets, allUsers, nextToken, observed>>
  /\ UNCHANGED <<storeVars, auxVars>>

\* fetchAllMentionsHistorical after `await fetchTwitterMentions`: lines 224-236
FetchMerge ==
  /\ fpc = "done"
  /\ fpc' = "idle"
  /\ disk' = mergeAndScore(disk, result.value, now, tz)
  /\ lastOp' = [op |-> "historical", added |-> Len(newTweetsOf(disk, result.value)),
                score |-> mergeBranch(disk, result.value, now, tz)]
  /\ pageCount' = 0
  /\ allTweets' = <<>>
  /\ allUsers' = <<>>
  /\ nextToken' = FALSE
  /\ observed' = NoObserved
  /\ UNCHANGED <<now, tz, pc, entry, range, data, cycleAdded, result>>
  /\ UNCHANGED auxVars

NextFetch == FetchCall \/ FetchRequest \/ FetchPage \/ FetchDelay \/ FetchMerge

SpecFetch == Init /\ [][NextFetch]_vars

\* C10: fetchTwitterMentions never throws, and a call in which a request or the
\* processing of the responses failed returns the empty list.
C10_FetchNeverThrows ==
  /\ result.threw = FALSE
  /\ (fpc = "done" /\ result.failed) => result.value = <<>>

\* the tenth request failed after earlier pages had delivered a record that a
\* successful call would have returned
C10_Witness ==
  /\ fpc = "done"
  /\ result.failed
  /\ pageCount = maxPages
  /\ \A i \in 1 .. Len(allTweets) : ~allTweets[i].isNull
  /\ processTweets(allTweets, allUsers).value # <<>>

\* the author allUsers.find gives for the raw tweet: its position in users, 0
\* when there is none
authorOf(tweet, users) == FirstIndex([u \in 1 .. Len(users) |-> users[u].id = tweet.author_id])

\* the ids a call returns when nothing failed: those of the gathered raw tweets
\* whose author is among the gathered users and has a handle
joinedIds(tweets, users) ==
  {tweets[i].id : i \in {k \in 1 .. Len(tweets) :
                          /\ authorOf(tweets[k], users) > 0
                          /\ users[authorOf(tweets[k], users)].username \notin {"", "unknown"}}}

\* C11: a call makes at most 10 requests; after a request that brought a page and
\* did not fail the call is over exactly when the page carries no cursor or it
\* was the tenth, and a call that ends without failure, also at the cap,
\* returns the records of all pages gathered.
C11_PageCap ==
  /\ [](pageCount <= maxPages)
  /\ [][(fpc = "await" /\ ~result'.failed)
        => /\ (fpc' = "done") <=> (~nextToken' \/ pageCount' = maxPages)
           /\ fpc' = "done"
                => /\ ~result'.threw
                   /\ {result'.value[i].id : i \in 1 .. Len(result'.value)}
                        = joinedIds(allTweets', allUsers')]_vars

\* the tenth page carried a cursor and the call returned the records gathered
C11_Witness ==
  /\ fpc = "done"
  /\ pageCount = maxPages
  /\ nextToken
  /\ ~result.failed
  /\ result.value # <<>>

\* C12: the list a call returns holds no id twice.
C12_ResultDeduplicated ==
  fpc = "done"
    => \A i, k \in 1 .. Len(result.value) :
         i # k => result.value[i].id # result.value[k].id

----------------------------------------------------------------------------
(* SpecStore: one invocation at a time on a backing file that may be absent *)
(* or damaged, with fetches and writes that may fail                         *)

FileKinds == {"store", "absent", "unreadable", "invalidJSON", "emptyObject", "null"}

\* DataStorage.load: the parsed content of an existing, readable, parsable file
\* is returned as it is (shape says what it is); every other file gives the
\* default of line 118
load(kind, d) ==
  IF kind = "store" THEN [shape |-> "store", data |-> d]
  ELSE IF kind \in {"emptyObject", "null"} THEN [shape |-> kind, data |-> EmptyStore]
  ELSE [shape |-> "store", data |-> EmptyStore]

\* variant: a failing write leaves the new content behind
save_applied(file, new, ok) == [kind |-> "store", data |-> new]

\* DataStorage.save: writeFileSync replaces the file, or throws into the catch
\* and leaves it as it was
save(file, new, ok) == IF ok THEN [kind |-> "store", data |-> new] ELSE file

saveOutcome(ok) == IF ok THEN "ok" ELSE "failed"

\* scoreAndStore on the file: data.tweets.filter of getWeeklyTweets throws when
\* the loaded value has no tweets array; the write is the last statement
scoreOnFile(file, t, off, ok) ==
  LET ld == load(file.kind, file.data)
  IN IF ld.shape # "store"
     THEN [file |-> file, threw |-> TRUE, score |-> "none"]
     ELSE IF noTweetsThisWeek(getWeeklyTweets(ld.data, 0, t))
     THEN [file |-> file, threw |-> FALSE, score |-> "none"]
     ELSE [file |-> save(file, scoreAndStore(ld.data, t, t, t, off), ok),
           threw |-> FALSE, score |-> saveOutcome(ok)]

\* variant: a stored record is replaced by the fetched copy of the same id
mergeOnFile_refresh(file, ld, tweets, t, off, ok1, ok2) ==
  IF ld.shape # "store"
  THEN [file |-> file, threw |-> TRUE, merge |-> "none", score |-> "none"]
  ELSE LET copyOf(stored) ==
             LET k == FirstIndex([i \in 1 .. Len(tweets) |-> tweets[i].id = stored.id])
             IN IF k > 0 THEN tweets[k] ELSE stored
           merged == mergeTweets(ld.data, tweets, t)
           written == save(file, [merged EXCEPT !.tweets = [i \in 1 .. Len(merged.tweets) |->
                                                             copyOf(merged.tweets[i])]], ok1)
           scored == scoreOnFile(written, t, off, ok2)
       IN IF shouldScore(newTweetsOf(ld.data, tweets))
          THEN [file |-> scored.file, threw |-> scored.threw,
                merge |-> saveOutcome(ok1), score |-> scored.score]
          ELSE [file |-> written, threw |-> FALSE,
                merge |-> saveOutcome(ok1), score |-> "none"]

\* lines 225-236 / 251-259 on the value ld the cycle has loaded:
\* data.tweets.map throws when ld has no tweets array
mergeOnFile(file, ld, tweets, t, off, ok1, ok2) ==
  IF ld.shape # "store"
  THEN [file |-> file, threw |-> TRUE, merge |-> "none", score |-> "none"]
  ELSE LET written == save(file, mergeTweets(ld.data, tweets, t), ok1)
           scored == scoreOnFile(written, t, off, ok2)
       IN IF shouldScore(newTweetsOf(ld.data, tweets))
          THEN [file |-> scored.file, threw |-> scored.threw,
                merge |-> saveOutcome(ok1), score |-> scored.score]
          ELSE [file |-> written, threw |-> FALSE,
                merge |-> saveOutcome(ok1), score |-> "none"]

\* a store left by an earlier run: one record of the current week, no snapshot
SeedStore ==
  [tweets |-> <<[id |-> "s0", username |-> "b", follower_count |-> 0,
                 created_at |-> Instant(0) - 120, likes |-> 1, retweets |-> 0]>>,
   lastFetch |-> Instant(0) - 90,
   leaderboards |-> <<>>]

InitStore ==
  /\ now = Instant(0)
  /\ tz \in TZOffsets
  /\ fileKind \in FileKinds
  /\ disk \in (IF fileKind = "store" THEN {EmptyStore, SeedStore} ELSE {EmptyStore})
  /\ pc = [p \in Procs |-> "idle"]
  /\ entry = [p \in Procs |-> "none"]
  /\ range = [p \in Procs |-> NoRange]
  /\ data = [p \in Procs |-> EmptyStore]
  /\ cycleAdded = [p \in Procs |-> 0]
  /\ lastOp = [op |-> "init", added |-> 0, score |-> "none"]
  /\ lastIO = NoIO
  /\ StepIdle
  /\ FetchIdle

\* the upstream reports the metrics a mention has when it is fetched: after the
\* first instant every like count has grown by one
withMetricsNow(tweets, t) ==
  IF t > Instant(0) THEN [i \in 1 .. Len(tweets) |-> [tweets[i] EXCEPT !.likes = @ + 1]]
  ELSE tweets

\* variant: a cycle whose fetch failed leaves the file alone
cycleOnFile_skipFailed(op, ld, tweets, failed, ok1, ok2) ==
  LET r == IF failed
           THEN [file |-> [kind |-> fileKind, data |-> disk], threw |-> FALSE,
                 merge |-> "none", score |-> "none"]
           ELSE mergeOnFile([kind |-> fileKind, data |-> disk], ld, tweets, now, tz, ok1, ok2)
  IN /\ fileKind' = r.file.kind
     /\ disk' = r.file.data
     /\ lastIO' = [threw |-> r.threw, fetch |-> IF failed THEN "failed" ELSE "ok",
                   merge |-> r.merge, score |-> r.score, refetched |-> FALSE]
     /\ lastOp' = [op |-> op, added |-> 0, score |-> "none"]

\* the effect of a cycle that loaded ld and fetched tweets (failed: the fetch
\* caught an error and returned [])
cycleOnFile(op, ld, tweets, failed, ok1, ok2) ==
  LET r == mergeOnFile([kind |-> fileKind, data |-> disk], ld, tweets, now, tz, ok1, ok2)
  IN /\ fileKind' = r.file.kind
     /\ disk' = r.file.data
     /\ lastIO' = [threw |-> r.threw, fetch |-> IF failed THEN "failed" ELSE "ok",
                   merge |-> r.merge, score |-> r.score,
                   refetched |-> \E i \in 1 .. Len(tweets) : \E k \in 1 .. Len(ld.data.tweets) :
                                   /\ tweets[i].id = ld.data.tweets[k].id
                                   /\ tweets[i] # ld.data.tweets[k]]
     /\ lastOp' = [op |-> op,
                   added |-> IF ld.shape = "store" THEN Len(newTweetsOf(ld.data, tweets)) ELSE 0,
                   score |-> "none"]

\* fetchAllMentionsHistorical, whose fetch returns at once
StoreHistorical ==
  /\ \E failed, ok1, ok2 \in BOOLEAN :
       \E tweets \in Batches([startTime |-> now - 7 * Day, endTime |-> now - EndLag],
                             MaxTick, MaxBatch) :
         /\ failed => tweets = <<>>
         /\ cycleOnFile("historical", load(fileKind, disk), withMetricsNow(tweets, now),
                        failed, ok1, ok2)
  /\ UNCHANGED <<now, tz, pc, entry, range, data, cycleAdded>>
  /\ UNCHANGED <<fetchVars, stepVars>>

\* fetchLatestMentionsLive, whose fetch returns at once; data.lastFetch of line
\* 243 throws on null, and new Date(undefined) compares false on {}
StoreLive ==
  /\ IF fileKind = "null"
     THEN /\ lastIO' = [threw |-> TRUE, fetch |-> "none", merge |-> "none", score |-> "none",
                         refetched |-> FALSE]
          /\ lastOp' = [op |-> "live", added |-> 0, score |-> "none"]
          /\ UNCHANGED <<fileKind, disk>>
     ELSE LET ld == load(fileKind, disk)
              lastFetch == ld.data.lastFetch
              startTime == IF lastFetch > now - LiveLookback THEN lastFetch
                           ELSE now - LiveLookback
          IN \E failed, ok1, ok2 \in BOOLEAN :
               \E tweets \in Batches([startTime |-> startTime, endTime |-> now - EndLag],
                                     MaxTick, MaxBatch) :
                 /\ failed => tweets = <<>>
                 /\ cycleOnFile("live", ld, withMetricsNow(tweets, now), failed, ok1, ok2)
  /\ UNCHANGED <<now, tz, pc, entry, range, data, cycleAdded>>
  /\ UNCHANGED <<fetchVars, stepVars>>

\* the exported scoreAndStore, called on its own
StoreScore ==
  /\ \E ok \in BOOLEAN :
       LET r == scoreOnFile([kind |-> fileKind, data |-> disk], now, tz, ok)
       IN /\ fileKind' = r.file.kind
          /\ disk' = r.file.data
          /\ lastIO' = [threw |-> r.threw, fetch |-> "none", merge |-> "none",
                        score |-> r.score, refetched |-> FALSE]
  /\ lastOp' = [op |-> "score", added |-> 0, score |-> "none"]
  /\ UNCHANGED <<now, tz, pc, entry, range, data, cycleAdded>>
  /\ UNCHANGED <<fetchVars, stepVars>>

StoreTick ==
  /\ tick(MaxTick)
  /\ lastIO' = NoIO
  /\ UNCHANGED fileKind
  /\ UNCHANGED <<fetchVars, stepVars>>

NextStore == StoreHistorical \/ StoreLive \/ StoreScore \/ StoreTick

SpecStore == InitStore /\ [][NextStore]_vars

\* C13: a cycle whose write of the merged data succeeds leaves the file with
\* lastFetch equal to the current time, whether or not a record was appended.
C13_LastFetchSetEveryCycle ==
  [][lastIO'.merge = "ok" => (fileKind' = "store" /\ disk'.lastFetch = now)]_vars

\* a cycle that appended nothing to a store holding records has moved lastFetch
\* to the later instant
C13_Witness ==
  /\ lastOp.op \in {"historical", "live"}
  /\ lastOp.added = 0
  /\ lastIO.merge = "ok"
  /\ disk.tweets # <<>>
  /\ now = Instant(1)
  /\ disk.lastFetch = now

\* C14: a cycle whose fetch failed leaves lastFetch as it was.
C14_FailedFetchKeepsLastFetch ==
  [][lastIO'.fetch = "failed"
     => load(fileKind', disk').data.lastFetch = load(fileKind, disk).data.lastFetch]_vars

\* C15: no operation on the store ends with an exception, whatever the backing
\* file holds.
C15_LoadNeverCrashes == ~lastIO.threw

----------------------------------------------------------------------------
(* SpecScore: scoreAndStore statement by statement, with a process that may *)
(* exit between any two statements                                           *)

\* lines 350-355: the object literal built from the locals
snapshotOf(l, weekKey) ==
  [week |-> weekKey,
   users |-> l.userStats,
   totalTweets |-> Len(l.currentWeekTweets),
   mostViralTweet |-> l.mostViralTweet]

\* variant: storage.save is reached before the snapshot is built
saveAt_early(position) == position \in {"ranked", "viral", "built"}

\* storage.save(data) is the statement after the snapshot was put into data
saveAt(position) == position = "built"

\* a call of scoreAndStore from outside
ScoreCall ==
  /\ spc = "idle"
  /\ spc' = "called"
  /\ locals' = NoLocals
  /\ UNCHANGED <<storeVars, fetchVars, ioVars, call>>

\* lines 224-236 of fetchAllMentionsHistorical, up to the call of scoreAndStore
ScoreMerge ==
  /\ spc = "idle"
  /\ \E tweets \in Batches([startTime |-> now - 7 * Day, endTime |-> now - EndLag],
                           MaxTick, MaxBatch) :
       /\ disk' = mergeTweets(disk, tweets, now)
       /\ lastOp' = [op |-> "historical", added |-> Len(newTweetsOf(disk, tweets)),
                     score |-> "none"]
       /\ spc' = IF shouldScore(newTweetsOf(disk, tweets)) THEN "called" ELSE "idle"
  /\ locals' = NoLocals
  /\ UNCHANGED <<now, tz, pc, entry, range, data, cycleAdded>>
  /\ UNCHANGED <<fetchVars, ioVars, call>>

\* lines 285-291
ScoreBegin ==
  /\ spc = "called"
  /\ LET currentWeekTweets == getWeeklyTweets(disk, 0, now)
         previousWeekTweets == getWeeklyTweets(disk, 1, now)
     IN IF noTweetsThisWeek(currentWeekTweets)
        THEN spc' = "idle" /\ locals' = NoLocals
        ELSE /\ spc' = "loaded"
             /\ locals' = [NoLocals EXCEPT !.currentWeekTweets = currentWeekTweets,
                                           !.previousWeekTweets = previousWeekTweets]
  /\ UNCHANGED <<storeVars, fetchVars, ioVars, call>>

\* lines 293-330
ScoreRank ==
  /\ spc = "loaded"
  /\ spc' = "ranked"
  /\ locals' = [locals EXCEPT !.userStats =
                  rankUsers(locals.currentWeekTweets, locals.previousWeekTweets)]
  /\ UNCHANGED <<storeVars, fetchVars, ioVars, call>>

\* lines 332-348
ScoreViral ==
  /\ spc = "ranked"
  /\ spc' = "viral"
  /\ locals' = [locals EXCEPT !.mostViralTweet =
                  IF Len(locals.currentWeekTweets) > 0 THEN mostViral(locals.currentWeekTweets)
                  ELSE DummyTweet]
  /\ UNCHANGED <<storeVars, fetchVars, ioVars, call>>

\* lines 350-365
ScoreBuild ==
  /\ spc = "viral"
  /\ spc' = "built"
  /\ locals' = [locals EXCEPT !.data =
                  [disk EXCEPT !.leaderboards =
                     trimLeaderboards(upsertLeaderboard(@, snapshotOf(locals, getWeekKey(now, tz))))]]
  /\ UNCHANGED <<storeVars, fetchVars, ioVars, call>>

\* line 366
ScoreSave ==
  /\ saveAt(spc)
  /\ disk' = locals.data
  /\ locals' = [locals EXCEPT !.writes = @ + 1]
  /\ spc' = "idle"
  /\ UNCHANGED <<now, tz, pc, entry, range, data, cycleAdded, lastOp>>
  /\ UNCHANGED <<fetchVars, ioVars, call>>

\* the process exits while scoreAndStore runs and is started again
ScoreExit ==
  /\ spc # "idle"
  /\ spc' = "idle"
  /\ locals' = NoLocals
  /\ UNCHANGED <<storeVars, fetchVars, ioVars, call>>

ScoreTick == tick(MaxTick) /\ UNCHANGED <<fetchVars, auxVars>>

NextScore ==
  \/ ScoreCall \/ ScoreMerge \/ ScoreBegin \/ ScoreRank \/ ScoreViral
  \/ ScoreBuild \/ ScoreSave \/ ScoreExit \/ ScoreTick

SpecScore == Init /\ [][NextScore]_vars

\* C17: a call of scoreAndStore writes the file at most once, as its last
\* statement; what it writes keeps the records, holds a snapshot with the
\* ranking, the count and the most viral record of the tweets it read, and
\* holds besides it only snapshots the file had; a process exit before that
\* statement leaves the file untouched.
C17_SnapshotWrittenWhole ==
  /\ [](locals.writes <= 1)
  /\ [][(spc # "idle" /\ disk' # disk)
        => /\ spc = "built" /\ spc' = "idle" /\ locals.writes = 0
           /\ disk'.tweets = disk.tweets /\ disk'.lastFetch = disk.lastFetch
           /\ \E i \in 1 .. Len(disk'.leaderboards) :
                /\ disk'.leaderboards[i].users =
                     rankUsers(locals.currentWeekTweets, locals.previousWeekTweets)
                /\ disk'.leaderboards[i].totalTweets = Len(locals.currentWeekTweets)
                /\ disk'.leaderboards[i].mostViralTweet = mostViral(locals.currentWeekTweets)
                /\ \A k \in 1 .. Len(disk'.leaderboards) :
                     k # i => disk'.leaderboards[k] \in Range(disk.leaderboards)]_vars

\* a call has written its snapshot, with a ranked user, next to an older one
C17_Witness ==
  /\ spc = "idle"
  /\ locals.writes = 1
  /\ Len(disk.leaderboards) >= 2
  /\ disk.leaderboards[Len(disk.leaderboards)].users # <<>>

----------------------------------------------------------------------------
(* getWeekKey as time advances *)

\* the local day number of the Sunday that starts the local week of t
localSunday(t, off) == ((t + off) \div Day) - getDay((t + off) \div Day)

\* C18: when the clock advances the week key does not decrease, it stays the
\* same while the local Sunday-to-Saturday week is the same, and it is the date
\* of the Sunday that starts the local week.
C18_WeekKeyOncePerWeek ==
  /\ [](getWeekKey(now, tz) = localSunday(now, tz))
  /\ [][now' > now
        => /\ getWeekKey(now', tz) >= getWeekKey(now, tz)
           /\ localSunday(now', tz) = localSunday(now, tz)
                => getWeekKey(now', tz) = getWeekKey(now, tz)]_vars

----------------------------------------------------------------------------
(* SpecWindow: getWeeklyTweets on stores with records at the window limits *)

\* records created at, one second before and one second after the limits of
\* the windows of the first instant
WindowTweets ==
  {[id |-> "w", username |-> "a", follower_count |-> 0,
    created_at |-> Instant(0) - k * Week + e, likes |-> 1, retweets |-> 0] :
     k \in 0 .. MaxOffset + 1, e \in {0 - 1, 0, 1}}

\* the process starts on a file with records around the window limits
InitWindow ==
  /\ now = Instant(0)
  /\ tz \in TZOffsets
  /\ \E tweets \in SeqsUpTo(WindowTweets, MaxStored) :
       disk = [EmptyStore EXCEPT !.tweets = tweets]
  /\ pc = [p \in Procs |-> "idle"]
  /\ entry = [p \in Procs |-> "none"]
  /\ range = [p \in Procs |-> NoRange]
  /\ data = [p \in Procs |-> EmptyStore]
  /\ cycleAdded = [p \in Procs |-> 0]
  /\ lastOp = [op |-> "init", added |-> 0, score |-> "none"]
  /\ FetchIdle
  /\ AuxIdle

\* the caller has taken the value of the last call
CallReturn ==
  /\ call.fn # "none"
  /\ call' = NoCall
  /\ UNCHANGED <<storeVars, fetchVars, ioVars, spc, locals>>

\* storage.getWeeklyTweets(weekOffset)
CallGetWeeklyTweets ==
  /\ call.fn = "none"
  /\ \E weekOffset \in 0 .. MaxOffset :
       call' = [fn |-> "getWeeklyTweets", input |-> disk.tweets, param |-> weekOffset,
                value |-> getWeeklyTweets(disk, weekOffset, now)]
  /\ UNCHANGED <<storeVars, fetchVars, ioVars, spc, locals>>

NextWindow == CallGetWeeklyTweets \/ CallReturn

SpecWindow == InitWindow /\ [][NextWindow]_vars

\* C19: getWeeklyTweets(offset) returns, in stored order, the records with
\* weekStart <= created_at < weekEnd for weekEnd = now - 7 * offset days and
\* weekStart = weekEnd - 7 days; every record of the last 7 * (n + 1) days is in
\* the window of exactly one offset 0 .. n.
C19_HalfOpenWindow ==
  /\ call.fn = "getWeeklyTweets"
       => LET weekEnd == now - 7 * call.param * Day
              weekStart == now - 7 * (call.param + 1) * Day
              kept == {i \in 1 .. Len(call.input) :
                         /\ weekStart <= call.input[i].created_at
                         /\ call.input[i].created_at < weekEnd}
          IN /\ Len(call.value) = Cardinality(kept)
             /\ \A i \in kept : call.input[i] \in Range(call.value)
             /\ \A j \in 1 .. Len(call.value) :
                  /\ weekStart <= call.value[j].created_at
                  /\ call.value[j].created_at < weekEnd
  /\ \A i \in 1 .. Len(disk.tweets) :
       LET c == disk.tweets[i].created_at
           offsets == {o \in 0 .. MaxOffset : disk.tweets[i] \in Range(getWeeklyTweets(disk, o, now))}
       IN IF now - 7 * (MaxOffset + 1) * Day <= c /\ c < now
          THEN Cardinality(offsets) = 1
          ELSE offsets = {}

\* the current-week window of a store with a record created exactly at weekStart
\* and one created exactly at weekEnd holds the first and not the second
C19_Witness ==
  /\ call.fn = "getWeeklyTweets"
  /\ call.param = 0
  /\ Len(call.input) = 2
  /\ call.input[1].created_at = now - 7 * Day
  /\ call.input[2].created_at = now
  /\ call.value = <<call.input[1]>>

----------------------------------------------------------------------------
(* SpecScorer: calculateUserScore on bounded inputs *)

\* records of one user: three metric profiles at three moments
ScoreTweets ==
  {[id |-> "t", username |-> "a", follower_count |-> m[1],
    created_at |-> Instant(0) - c, likes |-> m[2], retweets |-> m[3]] :
     m \in {<<1000, 10, 5>>, <<0, 1, 0>>, <<0, 0, 0>>}, c \in {100, 200, 300}}

PreviousWeekUsers == {<<>>, <<"a">>, <<"b">>, <<"b", "a">>}

\* calculateUserScore(userTweets, previousWeekUsers)
CallCalculateUserScore ==
  /\ call.fn = "none"
  /\ \E userTweets \in SeqsUpTo(ScoreTweets, MaxUserTweets) :
       \E previousWeekUsers \in PreviousWeekUsers :
         call' = [fn |-> "calculateUserScore", input |-> userTweets,
                  param |-> previousWeekUsers,
                  value |-> calculateUserScore(userTweets, previousWeekUsers)]
  /\ UNCHANGED <<storeVars, fetchVars, ioVars, spc, locals>>

NextScorer == CallCalculateUserScore \/ CallReturn

SpecScorer == Init /\ [][NextScorer]_vars

\* the orderings of 1 .. n that put the records of s most recent first
descendingOrders(s) ==
  {p \in [1 .. Len(s) -> 1 .. Len(s)] :
     /\ \A i, k \in 1 .. Len(s) : i # k => p[i] # p[k]
     /\ \A i \in 1 .. Len(s) - 1 : s[p[i]].created_at >= s[p[i + 1]].created_at}

\* the weight of rank i, times 4: 3, 1, 0.25
referenceWeight(i) == IF i = 0 THEN 12 ELSE IF i = 1 THEN 4 ELSE 1

\* the score of the reference formula, times 16000, for the ordering p
referenceScore(s, p, bonus) ==
  SumSeq([i \in 1 .. Len(s) |->
            (s[p[i]].follower_count + 1000 * s[p[i]].likes + 2000 * s[p[i]].retweets)
              * referenceWeight(i - 1)])
    * (IF bonus THEN 5 ELSE 4)

\* C20: calculateUserScore is the reference formula applied to the records most
\* recent first, with the factor 1.25 when the handle is in the prior-week set;
\* the records (1000,10,5), (0,1,0), (0,0,0), most recent first, give 64
\* without the bonus and 80 with it (1024000 and 1280000 in the model's unit).
C20_ScoreIsReferenceFormula ==
  call.fn = "calculateUserScore"
    => LET bonus == "a" \in Range(call.param) /\ call.input # <<>>
       IN /\ \E p \in descendingOrders(call.input) :
               call.value = referenceScore(call.input, p, bonus)
          /\ (/\ Len(call.input) = 3
              /\ \A i \in 1 .. 2 : call.input[i].created_at > call.input[i + 1].created_at
              /\ call.input[1].follower_count = 1000 /\ call.input[1].likes = 10
              /\ call.input[1].retweets = 5
              /\ call.input[2].follower_count = 0 /\ call.input[2].likes = 1
              /\ call.input[2].retweets = 0
              /\ call.input[3].follower_count = 0 /\ call.input[3].likes = 0
              /\ call.input[3].retweets = 0)
               => call.value = IF bonus THEN 1280000 ELSE 1024000

\* the example of the claim, given oldest first, with the bonus
C20_Witness ==
  /\ call.fn = "calculateUserScore"
  /\ Len(call.input) = 3
  /\ call.input[1].likes = 0 /\ call.input[2].likes = 1 /\ call.input[3].likes = 10
  /\ call.input[1].created_at < call.input[2].created_at
  /\ call.input[2].created_at < call.input[3].created_at
  /\ "a" \in Range(call.param)
  /\ call.value = 1280000

----------------------------------------------------------------------------
(* SpecRank: scoreAndStore on stores with several users *)

\* records of the handles b, 7 and c and of an unknown author, in the current
\* window and in the prior one
RankTweets ==
  {[id |-> "r1", username |-> "b", follower_count |-> 0,
    created_at |-> Instant(0) - 200, likes |-> 1, retweets |-> 0],
   [id |-> "r2", username |-> "b", follower_count |-> 0,
    created_at |-> Instant(0) - 100, likes |-> 2, retweets |-> 0],
   [id |-> "r3", username |-> "7", follower_count |-> 0,
    created_at |-> Instant(0) - 150, likes |-> 1, retweets |-> 0],
   [id |-> "r4", username |-> "b", follower_count |-> 0,
    created_at |-> Instant(0) - 8 * Day, likes |-> 0, retweets |-> 0],
   [id |-> "r5", username |-> "unknown", follower_count |-> 0,
    created_at |-> Instant(0) - 120, likes |-> 5, retweets |-> 0],
   [id |-> "r6", username |-> "c", follower_count |-> 0,
    created_at |-> Instant(0) - 130, likes |-> 0, retweets |-> 0],
   [id |-> "<number>", username |-> "b", follower_count |-> 0,
    created_at |-> Instant(0) - 160, likes |-> 3, retweets |-> 0],
   [id |-> "r8", username |-> "<undefined>", follower_count |-> 0,
    created_at |-> Instant(0) - 170, likes |-> 4, retweets |-> 0]}

\* the process starts on a file with records and no snapshot
InitRank ==
  /\ now = Instant(0)
  /\ tz \in TZOffsets
  /\ \E tweets \in SeqsUpTo(RankTweets, MaxRankTweets) :
       disk = [EmptyStore EXCEPT !.tweets = tweets]
  /\ pc = [p \in Procs |-> "idle"]
  /\ entry = [p \in Procs |-> "none"]
  /\ range = [p \in Procs |-> NoRange]
  /\ data = [p \in Procs |-> EmptyStore]
  /\ cycleAdded = [p \in Procs |-> 0]
  /\ lastOp = [op |-> "init", added |-> 0, score |-> "none"]
  /\ FetchIdle
  /\ AuxIdle

RankScore == callScoreAndStore /\ UNCHANGED <<fetchVars, auxVars>>

NextRank == RankScore

SpecRank == InitRank /\ [][NextRank]_vars

\* the current-week slice the snapshots of SpecRank were computed from
rankSlice == getWeeklyTweets(disk, 0, Instant(0))

\* index of the first record of handle u in the slice s
firstRecord(s, u) == FirstIndex([i \in 1 .. Len(s) |-> s[i].username = u])

\* C24: in every snapshot the ranked users have positive scores in
\* non-increasing order, and of two users with equal score the one whose first
\* record comes first in the current-week slice comes first.
C24_RankedUsersOrder ==
  \A n \in 1 .. Len(disk.leaderboards) :
    LET users == disk.leaderboards[n].users
    IN /\ \A i \in 1 .. Len(users) : users[i].totalScore > 0
       /\ \A i, k \in 1 .. Len(users) :
            i < k => /\ users[i].totalScore >= users[k].totalScore
                     /\ users[i].totalScore = users[k].totalScore
                          => firstRecord(rankSlice, users[i].username)
                               < firstRecord(rankSlice, users[k].username)

\* the records of handle u in a list of records
recordsOf(s, u) == SelectSeq(s, LAMBDA tweet : tweet.username = u)

\* the group of handle u in tweetsByUser
validRecordsOf(s, u) == SelectSeq(s, LAMBDA tweet : tweet.username = u /\ isValidTweet(tweet))

\* the latest creation time among the records of s
latestCreated(s) ==
  CHOOSE c \in {s[i].created_at : i \in 1 .. Len(s)} :
    \A i \in 1 .. Len(s) : s[i].created_at <= c

\* C25: in every snapshot the lastActive of a ranked user is the creation time
\* of the most recent record of that user in the current-week slice, whatever
\* the order in which the records were stored.
C25_LastActiveIsMostRecent ==
  \A n \in 1 .. Len(disk.leaderboards) :
    LET users == disk.leaderboards[n].users
    IN \A i \in 1 .. Len(users) :
         users[i].lastActive = latestCreated(validRecordsOf(rankSlice, users[i].username))

\* C23: in every snapshot the most viral record is a record of the current-week
\* slice and no record of the slice, valid or not, ranked or not, has a larger
\* likes + 2 * retweets.
C23_MostViralOverWholeSlice ==
  \A n \in 1 .. Len(disk.leaderboards) :
    LET mostViralTweet == disk.leaderboards[n].mostViralTweet
    IN /\ mostViralTweet \in Range(rankSlice)
       /\ \A tweet \in Range(rankSlice) : viralScore(tweet) <= viralScore(mostViralTweet)

\* a snapshot whose most viral record has an author that is not ranked, above
\* a ranked user
C23_Witness ==
  \E n \in 1 .. Len(disk.leaderboards) :
    LET lb == disk.leaderboards[n]
    IN /\ lb.users # <<>>
       /\ \A i \in 1 .. Len(lb.users) : lb.users[i].username # lb.mostViralTweet.username
       /\ lb.mostViralTweet.username = "unknown"

\* the prior rolling window of the snapshots of SpecRank
rankPrior == getWeeklyTweets(disk, 1, Instant(0))

\* C21: the score of a user's records with the handle among the prior-week
\* handles is 5/4 of the score without it, and in every snapshot a ranked user
\* has the larger score exactly when a stored record of that handle lies in the
\* prior rolling window.
C21_BonusIffActiveInPriorWeek ==
  /\ \A u \in {rankSlice[i].username : i \in 1 .. Len(rankSlice)} :
       u # "" => 4 * calculateUserScore(validRecordsOf(rankSlice, u), <<u>>)
                   = 5 * calculateUserScore(validRecordsOf(rankSlice, u), <<>>)
  /\ \A n \in 1 .. Len(disk.leaderboards) :
       LET users == disk.leaderboards[n].users
       IN \A i \in 1 .. Len(users) :
            LET u == users[i].username
                plain == calculateUserScore(validRecordsOf(rankSlice, u), <<>>)
            IN IF recordsOf(rankPrior, u) # <<>>
               THEN 4 * users[i].totalScore = 5 * plain
               ELSE users[i].totalScore = plain

\* a snapshot that ranks one user with the bonus and one without
C21_Witness ==
  \E n \in 1 .. Len(disk.leaderboards) :
    LET users == disk.leaderboards[n].users
    IN \E i, k \in 1 .. Len(users) :
         /\ recordsOf(rankPrior, users[i].username) # <<>>
         /\ recordsOf(rankPrior, users[k].username) = <<>>
         /\ 4 * users[i].totalScore
              = 5 * calculateUserScore(validRecordsOf(rankSlice, users[i].username), <<>>)

----------------------------------------------------------------------------
(* calculateUserScore: the place of the strongest record *)

\* the records of `order`, in that order, at the creation times of s
atTimesOf(order, s) == [i \in 1 .. Len(order) |-> [order[i] EXCEPT !.created_at = s[i].created_at]]

\* s with the record of rank 0 at the 1-based position k: exchanged with the
\* record that was there, or moved there with the records between shifted up
exchanged(s, k) == [i \in 1 .. Len(s) |-> IF i = 1 THEN s[k] ELSE IF i = k THEN s[1] ELSE s[i]]
movedTo(s, k) == SubSeq(s, 2, k) \o <<s[1]>> \o SubSeq(s, k + 1, Len(s))

\* the records have pairwise different creation times
distinctTimes(s) == \A i, k \in 1 .. Len(s) : i # k => s[i].created_at # s[k].created_at

\* C22: when the record of highest impact is the most recent one, the score is
\* at least the score of the same records with that record at rank 2 or later.
C22_StrongestRecordFirstIsBest ==
  (call.fn = "calculateUserScore" /\ distinctTimes(call.input))
    => LET sorted == sortByCreatedDesc(call.input)
       IN (\A i \in 1 .. Len(sorted) : impactScore(sorted[i]) <= impactScore(sorted[1]))
            => \A k \in 3 .. Len(sorted) :
                 /\ calculateUserScore(atTimesOf(exchanged(sorted, k), sorted), call.param)
                      <= call.value
                 /\ calculateUserScore(atTimesOf(movedTo(sorted, k), sorted), call.param)
                      <= call.value

\* three records, the strongest most recent, and a strictly smaller score with
\* the strongest at rank 2
C22_Witness ==
  /\ call.fn = "calculateUserScore"
  /\ Len(call.input) = 3
  /\ distinctTimes(call.input)
  /\ LET sorted == sortByCreatedDesc(call.input)
     IN /\ impactScore(sorted[1]) > impactScore(sorted[2])
        /\ impactScore(sorted[2]) > impactScore(sorted[3])
        /\ calculateUserScore(atTimesOf(exchanged(sorted, 3), sorted), call.param) < call.value

----------------------------------------------------------------------------
(* fetchTwitterMentions: the author join, the delays, and the merge of the *)
(* returned list                                                            *)

\* C26: no record a call returns has the handle unknown, a raw tweet whose
\* author is on no page is not returned, and no stored record has the handle
\* unknown.
C26_NoUnknownAuthor ==
  /\ \A i \in 1 .. Len(result.value) : result.value[i].username # "unknown"
  /\ (fpc = "done" /\ ~result.failed)
       => \A i \in 1 .. Len(allTweets) :
            authorOf(allTweets[i], observed.authors) = 0
              => \A k \in 1 .. Len(result.value) : result.value[k].id # allTweets[i].id
  /\ \A i \in 1 .. Len(disk.tweets) : disk.tweets[i].username # "unknown"

\* a call gathered a tweet with its author and a tweet whose author came on no
\* page, and returned the first one only
C26_Witness ==
  /\ fpc = "done"
  /\ ~result.failed
  /\ Len(allTweets) = 2
  /\ authorOf(allTweets[1], observed.authors) = 0
  /\ authorOf(allTweets[2], observed.authors) > 0
  /\ Len(result.value) = 1
  /\ result.value[1].id = allTweets[2].id

\* C28: the join looks for the author among the authors of all pages: a tweet
\* whose author came on any page, the same or another, is returned with the
\* handle and the follower count of that author.
C28_JoinAfterPagination ==
  (fpc = "done" /\ ~result.failed)
    => \A i \in 1 .. Len(allTweets) :
         LET u == authorOf(allTweets[i], observed.authors)
         IN (u > 0 /\ observed.authors[u].username \notin {"", "unknown"})
              => \E k \in 1 .. Len(result.value) :
                   /\ result.value[k].id = allTweets[i].id
                   /\ result.value[k].username = observed.authors[u].username
                   /\ result.value[k].follower_count = safeNumber(observed.authors[u].follower_count)

\* a tweet and its author came on different pages, and the tweet is returned
\* with the author's handle and follower count
C28_Witness ==
  /\ fpc = "done"
  /\ ~result.failed
  /\ pageCount > 1
  /\ Len(allTweets) = 1
  /\ observed.apart = {1}
  /\ Len(result.value) = 1
  /\ result.value[1].username = "a"
  /\ result.value[1].follower_count = 1000

\* C29: a request is sent only when every earlier request has had its outcome
\* and one delay has been taken after each of them, a delay is followed by a
\* request, and a call that is over has taken one delay less than it made
\* requests.
C29_SequentialRequestsOneDelayBetween ==
  /\ [](/\ observed.responses \in {pageCount, pageCount - 1}
        /\ fpc = "done" => (observed.responses = pageCount
                            /\ observed.delays = pageCount - 1))
  /\ [][/\ pageCount' = pageCount + 1
             => (observed.responses = pageCount /\ observed.delays = pageCount)
        /\ fpc = "delay" => fpc' = "request"
        /\ fpc' = "request" /\ pageCount' > 0 => fpc = "delay"
        /\ fpc' = "delay" => observed'.delays = observed.delays + 1]_vars

\* a call of three requests is over and has taken two delays
C29_Witness ==
  /\ fpc = "done"
  /\ ~result.failed
  /\ pageCount = 3
  /\ observed.delays = 2

\* C27: a cycle whose fetch failed leaves the file exactly as a cycle that
\* runs on the same file at the same time and whose fetch found no mention:
\* same records, same lastFetch, same snapshots.
C27_FailedFetchLikeEmptyFetch ==
  [][lastIO'.fetch = "failed"
       => LET found == mergeOnFile([kind |-> fileKind, data |-> disk], load(fileKind, disk),
                                   <<>>, now, tz, lastIO'.merge = "ok", TRUE)
          IN /\ fileKind' = found.file.kind
             /\ disk' = found.file.data
             /\ lastIO'.threw = found.threw]_vars

\* a cycle whose fetch failed has written a store that holds records, and has
\* moved its lastFetch
C27_Witness ==
  /\ lastIO.fetch = "failed"
  /\ lastIO.merge = "ok"
  /\ fileKind = "store"
  /\ disk.tweets # <<>>
  /\ now = Instant(1)
  /\ disk.lastFetch = now

\* C30: a merge keeps the stored records as they are, in their order, and
\* appends only fetched records whose id was not stored; a fetched copy of a
\* stored record with other metrics changes nothing.
C30_MergeOnlyAppends ==
  [][(lastOp'.op \in {"historical", "live"} /\ fileKind' = "store")
       => LET old == load(fileKind, disk).data.tweets
          IN /\ Len(disk'.tweets) >= Len(old)
             /\ SubSeq(disk'.tweets, 1, Len(old)) = old
             /\ \A i \in Len(old) + 1 .. Len(disk'.tweets) :
                  \A k \in 1 .. Len(old) : old[k].id # disk'.tweets[i].id]_vars

\* a cycle fetched a stored record with a like count that had grown, wrote the
\* merged data, and the store holds the record with the like count it had
C30_Witness ==
  /\ lastIO.refetched
  /\ lastIO.merge = "ok"
  /\ \E k \in 1 .. Len(disk.tweets) : disk.tweets[k] = Mention(0)

----------------------------------------------------------------------------
(* scoreAndStore: records that are not valid *)

\* the validity of the claim, spelled out: id and handle are strings and the
\* handle is neither empty nor unknown
wellFormed(tweet) ==
  /\ tweet.id \notin NonStrings
  /\ tweet.username \notin NonStrings \cup {"", "unknown"}

\* C31: in every snapshot the records of the current-week slice that are not
\* valid are in no user's entry and in no score: every entry has a valid
\* handle, counts and scores the valid records of that handle only, and has a
\* valid top record; totalTweets is the size of the whole slice.
C31_InvalidCountedNotScored ==
  \A n \in 1 .. Len(disk.leaderboards) :
    LET lb == disk.leaderboards[n]
    IN /\ lb.totalTweets = Len(rankSlice)
       /\ \A i \in 1 .. Len(lb.users) :
            LET stat == lb.users[i]
                group == SelectSeq(rankSlice, LAMBDA tweet :
                                     tweet.username = stat.username /\ wellFormed(tweet))
            IN /\ stat.username \notin NonStrings \cup {"", "unknown"}
               /\ stat.tweetCount = Len(group)
               /\ stat.totalScore
                    = calculateUserScore(group, IF recordsOf(rankPrior, stat.username) # <<>>
                                                THEN <<stat.username>> ELSE <<>>)
               /\ wellFormed(stat.topTweet)

\* a snapshot of a slice that holds a valid record of b, a record of b whose id
\* is a number and a record without handle: b is ranked with one record, and
\* three records are counted
C31_Witness ==
  \E n \in 1 .. Len(disk.leaderboards) :
    LET lb == disk.leaderboards[n]
    IN /\ Len(rankSlice) = 3
       /\ \E i, k \in 1 .. 3 : /\ ~isString(rankSlice[i].id) /\ rankSlice[i].username = "b"
                               /\ ~isString(rankSlice[k].username)
       /\ lb.totalTweets = 3
       /\ Len(lb.users) = 1
       /\ lb.users[1].username = "b"
       /\ lb.users[1].tweetCount = 1

----------------------------------------------------------------------------
(* SpecJoin: the join of one raw tweet with its author, for every kind of *)
(* value of the numeric fields                                            *)

\* what the payload can hold in a numeric field
RawValues == {Num(10), Num(0), NumericString(7), Null, Undefined, NonNumeric}

\* lines 194-206 for one tweet of author u1, whose author is among the users or
\* not
CallProcessTweet ==
  /\ call.fn = "none"
  /\ \E likes, retweets \in RawValues :
       \E users \in {<<>>} \cup {<<[id |-> "u1", username |-> "a", follower_count |-> f]>> :
                                  f \in RawValues} :
         LET tweet == [id |-> "1", author_id |-> "u1", created_at |-> Instant(0) - 60,
                       like_count |-> likes, retweet_count |-> retweets, isNull |-> FALSE]
         IN call' = [fn |-> "processTweet", input |-> tweet, param |-> users,
                     value |-> processTweet(tweet, users)]
  /\ UNCHANGED <<storeVars, fetchVars, ioVars, spc, locals>>

NextJoin == CallProcessTweet \/ CallReturn

SpecJoin == Init /\ [][NextJoin]_vars

\* the payload value is null, undefined or not numeric
notANumber(value) == value.k \in {"null", "undefined", "string"}

\* C32: the record built from a raw tweet has 0 in every numeric field whose
\* upstream value is null, undefined or not numeric, the upstream number in the
\* others, NaN in none, and its score is a number.
C32_SafeNumbersStored ==
  call.fn = "processTweet"
    => LET tweet == call.input
           stored == call.value
           follower == IF call.param = <<>> THEN Undefined ELSE call.param[1].follower_count
       IN /\ stored.likes = IF notANumber(tweet.like_count) THEN 0 ELSE tweet.like_count.v
          /\ stored.retweets
               = IF notANumber(tweet.retweet_count) THEN 0 ELSE tweet.retweet_count.v
          /\ stored.follower_count = IF notANumber(follower) THEN 0 ELSE follower.v
          /\ NaN \notin {stored.likes, stored.retweets, stored.follower_count}
          /\ calculateUserScore(<<stored>>, <<>>)
               = 48 * (stored.follower_count + 1000 * stored.likes + 2000 * stored.retweets)

\* a record built from a like count that is no number, a retweet count that is
\* null and a follower count that is undefined
C32_Witness ==
  /\ call.fn = "processTweet"
  /\ call.input.like_count = NonNumeric
  /\ call.input.retweet_count = Null
  /\ call.param # <<>>
  /\ call.param[1].follower_count = Undefined
  /\ call.value.likes = 0 /\ call.value.retweets = 0 /\ call.value.follower_count = 0
  /\ call.value.username = "a"

----------------------------------------------------------------------------
(* SpecClock: scoreAndStore with a clock that advances between its reads *)

\* scoreAndStore on a store with records at the window limits: getWeeklyTweets(0)
\* reads the clock at now, getWeeklyTweets(1) at t1 and getWeekKey() at tk; the
\* clock is followed for MaxDrift seconds after the first instant
ClockScore ==
  /\ call.fn = "none"
  /\ \E t1 \in now .. Instant(0) + MaxDrift :
       \E tk \in t1 .. Instant(0) + MaxDrift :
         /\ disk' = scoreAndStore(disk, now, t1, tk, tz)
         /\ lastOp' = [op |-> "score", added |-> 0, score |-> scoreBranch(disk, now, tk, tz)]
         /\ call' = [fn |-> "scoreAndStore", input |-> getWeeklyTweets(disk, 0, now),
                     param |-> getWeeklyTweets(disk, 1, t1), value |-> t1 - now]
         /\ now' = tk
  /\ UNCHANGED <<tz, pc, entry, range, data, cycleAdded>>
  /\ UNCHANGED <<fetchVars, ioVars, spc, locals>>

NextClock == ClockScore \/ CallReturn

SpecClock == InitWindow /\ [][NextClock]_vars

\* C33: the current-week slice and the prior-week slice of one scoreAndStore
\* invocation have no record in common.
C33_SlicesDisjoint ==
  call.fn = "scoreAndStore" => Range(call.input) \cap Range(call.param) = {}

----------------------------------------------------------------------------
(* SpecLive: fetchLatestMentionsLive cycles one after the other *)

\* the time between two looks at the clock, 10 minutes
LiveStep == 600

\* lines 242-248: the range a live cycle requests on the store d at time t
liveRange(d, t) ==
  [startTime |-> IF d.lastFetch > t - LiveLookback THEN d.lastFetch ELSE t - LiveLookback,
   endTime |-> t - EndLag]

\* one fetchLatestMentionsLive cycle whose fetch returns at once; call keeps the
\* range of this cycle and the range of the live cycle before it
LiveCycle ==
  /\ \E tweets \in Batches(liveRange(disk, now), MaxTick, MaxBatch) :
       /\ disk' = mergeAndScore(disk, tweets, now, tz)
       /\ lastOp' = [op |-> "live", added |-> Len(newTweetsOf(disk, tweets)),
                     score |-> mergeBranch(disk, tweets, now, tz)]
  /\ call' = [fn |-> "fetchLatestMentionsLive", input |-> liveRange(disk, now),
              param |-> IF call.fn = "fetchLatestMentionsLive" THEN call.input ELSE NoRange,
              value |-> 0]
  /\ UNCHANGED <<now, tz, pc, entry, range, data, cycleAdded>>
  /\ UNCHANGED <<fetchVars, ioVars, spc, locals>>

LiveTick ==
  /\ now < Instant(0) + MaxLiveTicks * LiveStep
  /\ now' = now + LiveStep
  /\ lastOp' = [op |-> "tick", added |-> 0, score |-> "none"]
  /\ UNCHANGED <<tz, disk, pc, entry, range, data, cycleAdded>>
  /\ UNCHANGED <<fetchVars, auxVars>>

NextLive == LiveCycle \/ LiveTick

SpecLive == Init /\ [][NextLive]_vars

\* C34: the range a live cycle requests starts at or before the end of the
\* range of the live cycle before it.
C34_LiveRangesLeaveNoGap ==
  (call.fn = "fetchLatestMentionsLive" /\ call.param # NoRange)
    => call.input.startTime <= call.param.endTime

----------------------------------------------------------------------------
(* SpecAwait: one merge cycle at a time whose fetch takes time: the clock *)
(* may advance between the cycle's reading of it and the return of the    *)
(* fetch                                                                  *)

\* mentions at the limits of the requested ranges: one created exactly seven
\* days before the first instant, one a minute before it
EdgeMentions ==
  {[id |-> "e0", username |-> "a", follower_count |-> 1000,
    created_at |-> Instant(0) - 7 * Day, likes |-> 10, retweets |-> 5],
   [id |-> "e1", username |-> "b", follower_count |-> 0,
    created_at |-> Instant(0) - 60, likes |-> 1, retweets |-> 0]}

\* the lists fetchTwitterMentions can return for the range r
EdgeBatches(r) ==
  LET fetchable == {m \in EdgeMentions : r.startTime <= m.created_at /\ m.created_at < r.endTime}
  IN UNION {[1 .. n -> fetchable] : n \in 0 .. MaxBatch}

AwaitHistorical == startHistorical(1, "historical") /\ UNCHANGED <<fetchVars, auxVars>>

AwaitLive == startLive(1) /\ UNCHANGED <<fetchVars, auxVars>>

\* the clock advances while the fetch is awaited
AwaitDrift ==
  /\ pc[1] = "awaitFetch"
  /\ now < Instant(0) + MaxDrift
  /\ now' = now + 1
  /\ lastOp' = [op |-> "tick", added |-> 0, score |-> "none"]
  /\ UNCHANGED <<tz, disk, pc, entry, range, data, cycleAdded>>
  /\ UNCHANGED <<fetchVars, auxVars>>

\* lines 223-236 and 250-259: the fetch returns; the historical cycle loads
\* the store now, the live cycle has loaded it before its fetch
AwaitResume ==
  /\ pc[1] = "awaitFetch"
  /\ LET loaded == IF entry[1] = "live" THEN data[1] ELSE disk
     IN \E tweets \in EdgeBatches(range[1]) :
          /\ disk' = mergeAndScore(loaded, tweets, now, tz)
          /\ lastOp' = [op |-> entry[1], added |-> Len(newTweetsOf(loaded, tweets)),
                        score |-> mergeBranch(loaded, tweets, now, tz)]
  /\ pc' = [pc EXCEPT ![1] = "idle"]
  /\ entry' = [entry EXCEPT ![1] = "none"]
  /\ range' = [range EXCEPT ![1] = NoRange]
  /\ data' = [data EXCEPT ![1] = EmptyStore]
  /\ UNCHANGED <<now, tz, cycleAdded>>
  /\ UNCHANGED <<fetchVars, auxVars>>

NextAwait == AwaitHistorical \/ AwaitLive \/ AwaitDrift \/ AwaitResume

SpecAwait == Init /\ [][NextAwait]_vars

\* C35: a merge cycle that has appended a record leaves the store with a
\* snapshot under the current week key, computed from the records the store
\* holds at the end of the cycle.
C35_NewRecordsGetSnapshot ==
  [][(lastOp'.op \in {"historical", "live"} /\ lastOp'.added > 0)
       => \E i \in 1 .. Len(disk'.leaderboards) :
            disk'.leaderboards[i] =
              leaderboardData(getWeeklyTweets(disk', 0, now'), getWeeklyTweets(disk', 1, now'),
                              getWeekKey(now', tz))]_vars

----------------------------------------------------------------------------
(* SpecHistorical: concurrently running fetchAllMentionsHistorical cycles, *)
(* no fetchLatestMentionsLive                                              *)

HistoricalStart(p) == startHistorical(p, "historical") /\ UNCHANGED <<fetchVars, auxVars>>

\* lines 223-236 from the return of the fetch: load, merge, save and score
\* with no await in between
HistoricalReturn(p) ==
  /\ pc[p] = "awaitFetch"
  /\ \E tweets \in EdgeBatches(range[p]) :
       /\ disk' = mergeAndScore(disk, tweets, now, tz)
       /\ lastOp' = [op |-> "historical", added |-> Len(newTweetsOf(disk, tweets)),
                     score |-> mergeBranch(disk, tweets, now, tz)]
  /\ pc' = [pc EXCEPT ![p] = "idle"]
  /\ entry' = [entry EXCEPT ![p] = "none"]
  /\ range' = [range EXCEPT ![p] = NoRange]
  /\ UNCHANGED <<now, tz, data, cycleAdded>>
  /\ UNCHANGED <<fetchVars, auxVars>>

HistoricalDrift ==
  /\ now < Instant(0) + MaxDrift
  /\ now' = now + 1
  /\ lastOp' = [op |-> "tick", added |-> 0, score |-> "none"]
  /\ UNCHANGED <<tz, disk, pc, entry, range, data, cycleAdded>>
  /\ UNCHANGED <<fetchVars, auxVars>>

NextHistorical ==
  \/ \E p \in Procs : HistoricalStart(p)
  \/ \E p \in Procs : HistoricalReturn(p)
  \/ HistoricalDrift

SpecHistorical == Init /\ [][NextHistorical]_vars

\* C36: while fetchAllMentionsHistorical cycles interleave, every step keeps
\* the stored ids and leaves no id stored twice.
C36_ConcurrentHistoricalKeepsRecords ==
  [][/\ idsOf(disk) \subseteq idsOf(disk')
     /\ \A i, k \in 1 .. Len(disk'.tweets) :
          i # k => disk'.tweets[i].id # disk'.tweets[k].id]_vars

----------------------------------------------------------------------------
(* The frame of scoreAndStore and the growth of the record list (SpecWeeks) *)

\* C37: a scoreAndStore call leaves the records and lastFetch of the store as
\* they are, and every operation keeps the stored records, in their order, at
\* the front of the record list.
C37_ScoreChangesSnapshotsOnly ==
  [][/\ Len(disk'.tweets) >= Len(disk.tweets)
     /\ SubSeq(disk'.tweets, 1, Len(disk.tweets)) = disk.tweets
     /\ lastOp'.op = "score"
          => (disk'.tweets = disk.tweets /\ disk'.lastFetch = disk.lastFetch)]_vars

\* a scoreAndStore call has persisted a snapshot of a store that holds a record
\* older than the current week
C37_Witness ==
  /\ lastOp.op = "score"
  /\ lastOp.score \in {"appended", "replaced", "evicted"}
  /\ disk.leaderboards # <<>>
  /\ Len(getWeeklyTweets(disk, 0, now)) < Len(disk.tweets)
  /\ disk.lastFetch > 0

----------------------------------------------------------------------------
(* scoreAndStore: the sentinel of the empty window (SpecRank) *)

\* C38: every snapshot counts at least one record and has a record of the
\* current-week slice, not the sentinel, as most viral record; and after a
\* scoreAndStore call on a store whose slice is not empty there is a snapshot,
\* with no ranked user when no valid record of the slice has a positive impact.
C38_NoSentinelInSnapshots ==
  /\ \A n \in 1 .. Len(disk.leaderboards) :
       LET lb == disk.leaderboards[n]
       IN /\ lb.totalTweets >= 1
          /\ lb.mostViralTweet \in Range(rankSlice)
          /\ lb.mostViralTweet.id # "dummy"
          /\ lb.mostViralTweet.username # "none"
  /\ (lastOp.op = "score" /\ rankSlice # <<>>)
       => /\ Len(disk.leaderboards) = 1
          /\ (\A tweet \in Range(rankSlice) : wellFormed(tweet) => impactScore(tweet) = 0)
               => disk.leaderboards[1].users = <<>>

\* a snapshot of a slice whose only record is the record of c without likes,
\* reposts or followers: nobody is ranked and that record is the most viral one
C38_Witness ==
  /\ lastOp.op = "score"
  /\ Len(rankSlice) = 1
  /\ rankSlice[1].username = "c"
  /\ Len(disk.leaderboards) = 1
  /\ disk.leaderboards[1].users = <<>>
  /\ disk.leaderboards[1].totalTweets = 1
  /\ disk.leaderboards[1].mostViralTweet = rankSlice[1]

----------------------------------------------------------------------------
(* SpecPermute: calculateUserScore on a list and on a permutation of it *)

\* variant: the argument itself is sorted
spreadSort_inPlace(userTweets) ==
  [sortedTweets |-> sortByCreatedDesc(userTweets), userTweets |-> sortByCreatedDesc(userTweets)]

\* line 263, [...userTweets].sort(...): the spread makes a new array, sort
\* orders that array in place and returns it; userTweets is the argument after
\* the statement
spreadSort(userTweets) ==
  [sortedTweets |-> sortByCreatedDesc(userTweets), userTweets |-> userTweets]

\* what a caller sees of calculateUserScore(userTweets, previousWeekUsers): the
\* returned score and its array after the call
scoreCall(userTweets, previousWeekUsers) ==
  [score |-> calculateUserScore(userTweets, previousWeekUsers),
   userTweets |-> spreadSort(userTweets).userTweets]

\* the rearrangements of a list
permutationsOf(s) ==
  {[i \in 1 .. Len(s) |-> s[p[i]]] :
     p \in {q \in [1 .. Len(s) -> 1 .. Len(s)] : \A i, k \in 1 .. Len(s) : i # k => q[i] # q[k]}}

\* calculateUserScore is called on the records of a user, created at pairwise
\* different times, and on a rearrangement of them
CallOnPermutation ==
  /\ call.fn = "none"
  /\ \E userTweets \in SeqsUpTo(ScoreTweets, MaxUserTweets) :
       /\ distinctTimes(userTweets)
       /\ \E permuted \in permutationsOf(userTweets) :
            \E previousWeekUsers \in PreviousWeekUsers :
              call' = [fn |-> "calculateUserScore twice", input |-> <<userTweets, permuted>>,
                       param |-> previousWeekUsers,
                       value |-> <<scoreCall(userTweets, previousWeekUsers),
                                   scoreCall(permuted, previousWeekUsers)>>]
  /\ UNCHANGED <<storeVars, fetchVars, ioVars, spc, locals>>

NextPermute == CallOnPermutation \/ CallReturn

SpecPermute == Init /\ [][NextPermute]_vars

\* C39: calculateUserScore gives the same score for a list of records with
\* pairwise different creation times and for every rearrangement of it, and
\* leaves the list it was given as it was.
C39_ScoreIgnoresInputOrder ==
  call.fn = "calculateUserScore twice"
    => /\ call.value[1].score = call.value[2].score
       /\ call.value[1].userTweets = call.input[1]
       /\ call.value[2].userTweets = call.input[2]

\* three records given oldest first and given most recent first: the same
\* positive score, and the first list still oldest first
C39_Witness ==
  /\ call.fn = "calculateUserScore twice"
  /\ Len(call.input[1]) = 3
  /\ \A i \in 1 .. 2 : /\ call.input[1][i].created_at < call.input[1][i + 1].created_at
                       /\ call.input[2][i].created_at > call.input[2][i + 1].created_at
                       /\ impactScore(call.input[1][i]) # impactScore(call.input[1][i + 1])
  /\ call.value[1].score > 0
  /\ call.value[1].score = call.value[2].score
  /\ call.value[1].userTweets[1].created_at < call.value[1].userTweets[3].created_at

----------------------------------------------------------------------------
(* scoreAndStore: the entries of a snapshot against the window (SpecRank) *)

\* C40: in every snapshot the handles of the ranked users are pairwise
\* different; every entry counts the valid records of its handle in the
\* current-week slice, and its top record is one of them with the largest
\* likes + 2 * retweets; the counts add up to at most totalTweets.
C40_UserStatsMatchWindow ==
  \A n \in 1 .. Len(disk.leaderboards) :
    LET lb == disk.leaderboards[n]
        group(u) == SelectSeq(rankSlice, LAMBDA tweet : tweet.username = u /\ wellFormed(tweet))
    IN /\ \A i, k \in 1 .. Len(lb.users) : i # k => lb.users[i].username # lb.users[k].username
       /\ \A i \in 1 .. Len(lb.users) :
            LET stat == lb.users[i]
            IN /\ stat.tweetCount = Len(group(stat.username))
               /\ stat.topTweet.username = stat.username
               /\ stat.topTweet \in Range(group(stat.username))
               /\ \A tweet \in Range(group(stat.username)) :
                    viralScore(tweet) <= viralScore(stat.topTweet)
       /\ SumSeq([i \in 1 .. Len(lb.users) |-> lb.users[i].tweetCount]) <= lb.totalTweets

\* a snapshot of a slice with two records of b, the second with more likes, and
\* a record of an unknown author: b has two records, the second is the top
\* record, and three records are counted
C40_Witness ==
  \E n \in 1 .. Len(disk.leaderboards) :
    LET lb == disk.leaderboards[n]
    IN /\ Len(rankSlice) = 3
       /\ lb.totalTweets = 3
       /\ Len(lb.users) = 1
       /\ lb.users[1].username = "b"
       /\ lb.users[1].tweetCount = 2
       /\ \E i, k \in 1 .. 3 : /\ i < k
                               /\ rankSlice[i].username = "b"
                               /\ lb.users[1].topTweet = rankSlice[k]
                               /\ viralScore(rankSlice[i]) < viralScore(rankSlice[k])

====
